---------------------------- MODULE Spec2Model ----------------------------
(***************************************************************************)
(* Model of the dRonin revolution attitude estimator                       *)
(* (flight/Modules/Attitude/revolution/attitude.c): the AttitudeTask loop, *)
(* the complementary filter, the INSGPS navigation filter, the gyro bias   *)
(* accumulator and the settingsUpdatedCb configuration callback.           *)
(*                                                                         *)
(* Conventions                                                             *)
(*  - The estimator task is the only consumer of the six sensor queues and *)
(*    the producers (sensor drivers) are free running, so each             *)
(*    xQueueReceive is modelled by its outcome: a boolean drawn where the  *)
(*    code polls the queue (TRUE: an event was pending or arrived within   *)
(*    the timeout).  The set recv records the queues an iteration took an  *)
(*    event from.                                                          *)
(*  - UAVObject reads of sensor data (MagnetometerGet, GPSPositionGet,     *)
(*    FlightStatusGet, GyrosGet) are inputs drawn where the code reads.    *)
(*  - Published records are tracked by the set wrote of records an         *)
(*    iteration has Set; GyrosBias is also tracked by value.               *)
(*  - Floating point quantities are integers in a fixed unit.              *)
(***************************************************************************)
EXTENDS Integers, Sequences, FiniteSets, TLC

\* ----------------------------------------------------------------------
\* Program constants
\* ----------------------------------------------------------------------
CF_TICK_POWERON == 1000
CF_TICK_INITIALIZING == 7000
GYRO_MIN_SAMPLES == 100
INS_INIT_STAGES == 10
GPS_MIN_SATELLITES == 7
\* PDOP limit 4.0f, in tenths
GPS_MAX_PDOP == 40
\* 0.01f and 0.001f seconds, in microseconds
DT_MAX_US == 10000
DT_MIN_US == 1000
\* timeouts, in milliseconds, of the gyro receive, the paired accel receive
\* and the magnetometer receive of initialization stage 0
FAILSAFE_TIMEOUT_MS == 10
ACCEL_TIMEOUT_MS == 1
INIT_MAG_TIMEOUT_MS == 100
\* F_PI / 180 in micro-radians per degree
MICRORAD_PER_DEG == 17453

\* revoSettings.FusionAlgorithm values; ALG_OTHER stands for every value the
\* dispatch switch has no case for, ALG_INVALID for the 0xfffffff marker.
ALG_COMPLEMENTARY == "COMPLEMENTARY"
ALG_INSINDOOR == "INSINDOOR"
ALG_INSOUTDOOR == "INSOUTDOOR"
ALG_OTHER == "OTHER"
ALG_INVALID == "0xfffffff"
Algorithms == {ALG_COMPLEMENTARY, ALG_INSINDOOR, ALG_INSOUTDOOR, ALG_OTHER}

\* SystemAlarms severities of the ATTITUDE alarm (AlarmsClear stores OK)
ALARM_OK == "OK"
ALARM_WARNING == "WARNING"
ALARM_ERROR == "ERROR"
ALARM_CRITICAL == "CRITICAL"

CF_POWERON == "CF_POWERON"
CF_INITIALIZING == "CF_INITIALIZING"
CF_ARMING == "CF_ARMING"
CF_NORMAL == "CF_NORMAL"

\* ----------------------------------------------------------------------
\* Bounds of the model
\* ----------------------------------------------------------------------
\* cap of the accumulated sample count (and of arming_count) in Spec
MaxArming == 2
\* cap of the accumulated sample count in SpecAcc (above GYRO_MIN_SAMPLES)
MaxSamples == 102
\* largest magnitude of a published gyro bias component
MaxBias == 2

\* Input domains
TickVals == {1000, 1001, 4000, 7000}
Zero3 == <<0, 0, 0>>
GyroVals == {Zero3, <<1, 1, 1>>, <<1, 0, 0 - 1>>}
BiasSettingVals == {Zero3, <<1, 1, 1>>}
SatVals == {6, 7}

VARIABLES
    \* AttitudeTask locals
    pc, first_run, last_algorithm, ret_val,
    \* module globals written by settingsUpdatedCb
    FusionAlgorithm, homeSet, homeBe, gyroBiasSettingsUpdated,
    ZeroDuringArming, BiasCorrectGyro,
    \* UAVObjects
    gyrosBias, alarm,
    \* statics of updateAttitudeComplementary
    complimentary_filter_status, arming_count, mag_err,
    \* gyro bias accumulator
    gyro_bias_estimation,
    \* statics of updateAttitudeINSGPS and the INS gyro bias state
    inited, init_stage, mag_updated, baro_updated, gps_updated,
    gps_vel_updated, nav_gyro_bias,
    \* environment
    tick, magRegistered, portTICK_RATE_MS,
    \* what the last iteration did
    dispatched, called, called_first_run, exit, wrote, recv,
    mag_fresh, mag_computed, bias_computed, sensors, sim, wdg_refresh,
    \* whether the last iteration called INSCorrection
    corrected,
    \* the dT (in microseconds) the last iteration handed to
    \* INSStatePrediction: empty, or one value
    pred_dT,
    \* the Magnetometer record from which the last iteration took the
    \* initial yaw of the navigation filter: empty, or one record
    magSeed,
    \* the update functions called by the latest consecutive iterations
    \* that ran with first_run set (the last two of them), empty once an
    \* iteration ran a filter without first_run
    fr_chain,
    \* the xQueueReceive calls of the last iteration, as pairs of the queue
    \* and the timeout in ticks
    waits,
    \* GPSPosition.Satellites and GPSPosition.PDOP (in tenths) as read by the
    \* last iteration (-1: not read)
    gps_sats, gps_pdop,
    \* the Magnetometer record read by the last filter cycle
    magData,
    \* history: the number n of samples, the samples (vs) and the GyrosBias
    \* values (bs) summed into the accumulator since it was last zeroed
    acc_window,
    \* the history of the accumulator from which the last iteration
    \* published a mean
    bias_window,
    \* history: the navigation filter has taken a barometer event since its
    \* latest first-run reset
    baro_since_reset,
    \* quaternion integration of the complementary filter: the quaternion
    \* read from AttitudeActual, the corrected gyro rates times
    \* dT * F_PI / 180 / 2, the norm qmag and the quaternion published
    \* (<<>> before the first publication)
    quat_in, quat_rate, qmag, quat_out,
    \* NED conversion: the HomeLocation record, the coefficients T, the
    \* GPSPosition record converted last and its NED coordinates (<<>> before
    \* the first conversion)
    homeLocation, T, gpsPosition, NED,
    \* COM port: com_valid is PIOS_COM_validate of the port handle, tx the
    \* bytes in the tx FIFO (oldest first), sendbuffer_mtx the holder of the
    \* send mutex; com_ret and com_call are the return value and the
    \* arguments and pre-state of the latest PIOS_COM_SendBufferNonBlocking
    \* call, while nothing else has touched the port since
    com_valid, tx, sendbuffer_mtx, com_ret, com_call,
    \* history: the InitialGyroBias settingsUpdatedCb stored last, while no
    \* INSSetGyroBias call has passed it to the navigation filter (empty
    \* once one has)
    pushed,
    \* system module: the recursive mutex of the periodic-event list (its
    \* owner and lock count), the list (oldest first), the operation that
    \* ran last on the list and its return value
    mutex, objList, ev_op, ev_ret,
    \* the flag set by configurationUpdatedCb, the position of
    \* systemPeriodicCb ("idle", or "checking" while configuration_check
    \* runs) and, as history, whether a notification has arrived since
    \* configuration_check last started
    config_check_needed, cb_pc, unchecked

taskVars == <<pc, first_run, last_algorithm, ret_val>>
settingVars == <<FusionAlgorithm, homeSet, homeBe, gyroBiasSettingsUpdated,
                 ZeroDuringArming, BiasCorrectGyro>>
cfVars == <<complimentary_filter_status, arming_count, mag_err>>
insVars == <<inited, init_stage, mag_updated, baro_updated, gps_updated,
             gps_vel_updated, nav_gyro_bias>>
envVars == <<tick, magRegistered, portTICK_RATE_MS>>
quatVars == <<quat_in, quat_rate, qmag, quat_out>>
nedVars == <<homeLocation, T, gpsPosition, NED>>
comVars == <<com_valid, tx, sendbuffer_mtx, com_ret, com_call>>
sysVars == <<mutex, objList, ev_op, ev_ret, config_check_needed, cb_pc,
             unchecked>>
obsVars == <<dispatched, called, called_first_run, exit,
             wrote, recv, mag_fresh, mag_computed, bias_computed, sensors,
             sim, wdg_refresh, corrected, pred_dT, magSeed, fr_chain, waits,
             gps_sats,
             gps_pdop, magData,
             acc_window,
             bias_window,
             baro_since_reset>>
vars == <<taskVars, settingVars, gyrosBias, alarm, cfVars,
          gyro_bias_estimation, insVars, envVars, obsVars, quatVars,
          nedVars, comVars, pushed, sysVars>>

\* ----------------------------------------------------------------------
\* Helpers
\* ----------------------------------------------------------------------
Add3(a, b) == <<a[1] + b[1], a[2] + b[2], a[3] + b[3]>>
Sub3(a, b) == <<a[1] - b[1], a[2] - b[2], a[3] - b[3]>>
Abs(x) == IF x < 0 THEN 0 - x ELSE x
InBias(b) == \A i \in 1..3 : Abs(b[i]) <= MaxBias

\* float division, rounded to the nearest unit of the model
FDiv(a, n) == IF a >= 0 THEN (2 * a + n) \div (2 * n)
              ELSE 0 - ((2 * (0 - a) + n) \div (2 * n))

\* ----------------------------------------------------------------------
\* IEEE floats of the quaternion integration: a finite value in units of
\* 1 / FScale, an infinity (v is its sign) or a NaN.
\* ----------------------------------------------------------------------
FScale == 10000
Fin(x) == [k |-> "fin", v |-> x]
PInf == [k |-> "inf", v |-> 1]
NaN == [k |-> "nan", v |-> 0]
IsNaN(a) == a.k = "nan"
IsInf(a) == a.k = "inf"
Sgn(x) == IF x > 0 THEN 1 ELSE IF x < 0 THEN 0 - 1 ELSE 0
\* position on the extended real line, for comparisons of non-NaN floats
Ord(a) == IF IsInf(a) THEN a.v * 1073741824 ELSE a.v
\* a < b, false when either is NaN
FLess(a, b) == ~IsNaN(a) /\ ~IsNaN(b) /\ Ord(a) < Ord(b)
FNeg(a) == IF IsNaN(a) THEN a ELSE [a EXCEPT !.v = 0 - @]
FAbs(a) == IF IsNaN(a) THEN a ELSE [a EXCEPT !.v = Abs(@)]
FAdd(a, b) ==
    IF IsNaN(a) \/ IsNaN(b) THEN NaN
    ELSE IF IsInf(a) /\ IsInf(b) THEN (IF a.v = b.v THEN a ELSE NaN)
    ELSE IF IsInf(a) THEN a
    ELSE IF IsInf(b) THEN b
    ELSE Fin(a.v + b.v)
FSub(a, b) == FAdd(a, FNeg(b))
FMul(a, b) ==
    IF IsNaN(a) \/ IsNaN(b) THEN NaN
    ELSE IF IsInf(a) \/ IsInf(b)
    THEN (IF a.v = 0 \/ b.v = 0 THEN NaN
          ELSE [k |-> "inf", v |-> Sgn(a.v) * Sgn(b.v)])
    ELSE Fin(FDiv(a.v * b.v, FScale))
\* a / b
FQuot(a, b) ==
    IF IsNaN(a) \/ IsNaN(b) THEN NaN
    ELSE IF IsInf(a) /\ IsInf(b) THEN NaN
    ELSE IF IsInf(a)
    THEN [k |-> "inf", v |-> IF b.v < 0 THEN 0 - a.v ELSE a.v]
    ELSE IF IsInf(b) THEN Fin(0)
    ELSE IF b.v = 0
    THEN (IF a.v = 0 THEN NaN ELSE [k |-> "inf", v |-> Sgn(a.v)])
    ELSE Fin(Sgn(b.v) * FDiv(a.v * FScale, Abs(b.v)))
RECURSIVE SqrtBetween(_, _, _)
SqrtBetween(n, lo, hi) ==
    IF lo >= hi THEN lo
    ELSE LET mid == (lo + hi + 1) \div 2
         IN  IF mid * mid <= n THEN SqrtBetween(n, mid, hi)
             ELSE SqrtBetween(n, lo, mid - 1)
\* the integer square root
ISqrt(n) == SqrtBetween(n, 0, 46340)

\* ----------------------------------------------------------------------
\* Quaternion integration of the complementary filter.  q is <<q[0], q[1],
\* q[2], q[3]>> of the code, w is gyrosData times dT * F_PI / 180 / 2.
\* ----------------------------------------------------------------------
QIdentity == <<Fin(FScale), Fin(0), Fin(0), Fin(0)>>
\* 1.0e-3f
QMAG_MIN == Fin(FScale \div 1000)

\* qdot, the time derivative times dT
QDot(q, w) ==
    <<FSub(FSub(FMul(FNeg(q[2]), w[1]), FMul(q[3], w[2])), FMul(q[4], w[3])),
      FAdd(FSub(FMul(q[1], w[1]), FMul(q[4], w[2])), FMul(q[3], w[3])),
      FSub(FAdd(FMul(q[4], w[1]), FMul(q[1], w[2])), FMul(q[2], w[3])),
      FAdd(FAdd(FMul(FNeg(q[3]), w[1]), FMul(q[2], w[2])), FMul(q[1], w[3]))>>

\* "Take a time step"
TimeStep(q, qd) == [i \in 1..4 |-> FAdd(q[i], qd[i])]

\* "if (q[0] < 0)": negate all four components
SignFlip(q) == IF FLess(q[1], Fin(0)) THEN [i \in 1..4 |-> FNeg(q[i])] ELSE q

\* sqrtf(q[0]*q[0] + q[1]*q[1] + q[2]*q[2] + q[3]*q[3])
QMag(q) ==
    IF \E i \in 1..4 : IsNaN(q[i]) THEN NaN
    ELSE IF \E i \in 1..4 : IsInf(q[i]) THEN PInf
    ELSE Fin(ISqrt(q[1].v * q[1].v + q[2].v * q[2].v
                   + q[3].v * q[3].v + q[4].v * q[4].v))

\* "Renomalize"
Renormalize(q, m) == [i \in 1..4 |-> FQuot(q[i], m)]

\* "(fabs(qmag) < 1.0e-3f) || (qmag != qmag)"
Degenerate(m) == FLess(FAbs(m), QMAG_MIN) \/ IsNaN(m)

\* the integrated quaternion, before the sign flip
Integrated(q, w) == TimeStep(q, QDot(q, w))

\* the quaternion copied to AttitudeActual
Published(q, w) ==
    LET qf == SignFlip(Integrated(q, w))
        m  == QMag(qf)
    IN  IF Degenerate(m) THEN QIdentity ELSE Renormalize(qf, m)

\* ----------------------------------------------------------------------
\* NED conversion.  Latitude and longitude in 1e-7 degrees, altitudes in
\* metres, T[0] and T[1] in metres, NED in millimetres.
\* ----------------------------------------------------------------------
EARTH_RADIUS == 6378137
\* cosf(lat), in thousandths, of the home latitudes of the model
CosMilli(lat) == CASE lat = 0 -> 1000
                   [] lat = 600000000 -> 500

\* the deltaLLA to NED coefficients settingsUpdatedCb computes
NedCoefficients(home) ==
    <<home.Altitude + EARTH_RADIUS,
      CosMilli(home.Latitude) * FDiv(home.Altitude + EARTH_RADIUS, 1000),
      0 - 1>>

\* d / 10.0e6f * DEG2RAD, in units of 1e-12 rad
PicoRad(d) == d * 1745
\* t metres times dl picoradians, in millimetres
MilliMetres(t, dl) == FDiv(FDiv(t, 1000) * dl, 1000000)

getNED(gps, home, t) ==
    <<MilliMetres(t[1], PicoRad(gps.Latitude - home.Latitude)),
      MilliMetres(t[2], PicoRad(gps.Longitude - home.Longitude)),
      t[3] * (gps.Altitude + gps.GeoidSeparation - home.Altitude) * 1000>>

\* the GPSPosition record of a fix at offset o from the home location
FixAt(home, o) ==
    [Latitude |-> home.Latitude + o.dLat,
     Longitude |-> home.Longitude + o.dLon,
     Altitude |-> home.Altitude + o.dAlt,
     GeoidSeparation |-> o.Geoid]


\* ----------------------------------------------------------------------
\* Environment of a specification: the input domains its actions draw from.
\*   cap      cap of arming_count / accumulated samples
\*   on, opt  queues that always deliver / may or may not deliver when polled
\*   gyro     Gyros samples, aerr accelerometer error terms (accel_err * AccelKi)
\*   mag      Magnetometer readings, sats GPS satellite counts
\*   drift    changes INSCorrection makes to the filter's gyro bias state
\*   algs     values RevoSettings.FusionAlgorithm takes
\*   biasset  values of InertialSensorSettings.InitialGyroBias
\*   midpush  sets (empty or one value) of InitialGyroBias pushed while a
\*            navigation filter cycle computes
\*   earlypush  the same for a push between the cycle's GyrosBiasGet and
\*            its test of gyroBiasSettingsUpdated
\*   latepush the same for a push between the cycle's last test of
\*            gyroBiasSettingsUpdated and its GyrosBiasSet
\*   navnull  whether INSGPSGetNav may return NULL
\*   tickms   values of portTICK_RATE_MS, the tick period of the build
\*   elapsed  values of PIOS_DELAY_DiffuS(ins_last_time), in microseconds
\*   quats    quaternions read from AttitudeActual by the integration step
\*   rates    corrected gyro rates of the integration step
\*   homella  HomeLocation latitude (1e-7 deg), longitude, altitude (m)
\*   fixes    GPS fixes, as offsets from the home location, with their
\*            geoid separation
\* ----------------------------------------------------------------------
Queues == {"gyro", "accel", "mag", "baro", "gps", "gpsVel"}
\* a Magnetometer record: the components v and the set nan of the indices
\* of the components that are NaN
Mag(v) == [v |-> v, nan |-> {}]
MagNaN(v, i) == [v |-> v, nan |-> {i}]
UnitX == <<1, 0, 0>>
UnitY == <<0, 1, 0>>

\* outcomes of xQueueReceive on queue q
Poll(E, q) == IF q \in E.opt THEN BOOLEAN ELSE {q \in E.on}

\* x == x is false exactly for NaN
NotNaN(m) == 1 \notin m.nan /\ 2 \notin m.nan /\ 3 \notin m.nan
Len2(v) == v[1] * v[1] + v[2] * v[2] + v[3] * v[3]
CrossProduct(a, b) == <<a[2] * b[3] - a[3] * b[2],
                        a[3] * b[1] - a[1] * b[3],
                        a[1] * b[2] - a[2] * b[1]>>
\* rot_mult(Rbe, Be): the home field in the body frame, for a vehicle yawed
\* by r quarter turns
RotZ(v, r) == IF r = 0 THEN v ELSE <<v[2], 0 - v[1], v[3]>>

\* ----------------------------------------------------------------------
\* Gyro bias accumulator
\* ----------------------------------------------------------------------
\* the history of an accumulator that has just been zeroed
NoWindow == [n |-> 0, vs |-> {}, bs |-> {}]

accumulate_gyro_zero_KeepsCount(acc) ==
    [acc EXCEPT !.accumulated_gyro = Zero3]

accumulate_gyro_zero(acc) ==
    [acc EXCEPT !.accumulated_gyro_samples = 0, !.accumulated_gyro = Zero3]

accumulate_gyro_NoBias(acc, gyrosData, bias) ==
    IF ~acc.accumulating_gyro THEN acc
    ELSE [acc EXCEPT !.accumulated_gyro_samples = @ + 1,
                     !.accumulated_gyro = Add3(@, gyrosData)]

accumulate_gyro(acc, gyrosData, bias) ==
    IF ~acc.accumulating_gyro THEN acc
    ELSE [acc EXCEPT !.accumulated_gyro_samples = @ + 1,
                     !.accumulated_gyro = Add3(@, Add3(gyrosData, bias))]

\* guard of accumulate_gyro_compute
ComputeReady_AtLeast(acc) ==
    acc.accumulating_gyro /\ acc.accumulated_gyro_samples >= GYRO_MIN_SAMPLES

ComputeReady(acc) ==
    acc.accumulating_gyro /\ acc.accumulated_gyro_samples > GYRO_MIN_SAMPLES

MeanGyro(acc) ==
    <<FDiv(acc.accumulated_gyro[1], acc.accumulated_gyro_samples),
      FDiv(acc.accumulated_gyro[2], acc.accumulated_gyro_samples),
      FDiv(acc.accumulated_gyro[3], acc.accumulated_gyro_samples)>>

\* accumulate_gyro_compute: the accumulator and the GyrosBias record after it
accumulate_gyro_compute_acc(acc) ==
    IF ComputeReady(acc)
    THEN [accumulate_gyro_zero(acc) EXCEPT !.accumulating_gyro = FALSE]
    ELSE acc

accumulate_gyro_compute_bias(acc, bias) ==
    IF ComputeReady(acc) THEN MeanGyro(acc) ELSE bias

\* ----------------------------------------------------------------------
\* One call of an update function works on a record of the state it may
\* change (the statics, the records it publishes, its return value) and
\* Commit stores the record when the function returns.
\* ----------------------------------------------------------------------
Cur ==
    [ret |-> 0 - 1, alarm |-> alarm, bias |-> gyrosBias,
     status |-> complimentary_filter_status, arming_count |-> arming_count,
     mag_err |-> mag_err, acc |-> gyro_bias_estimation,
     inited |-> inited, init_stage |-> init_stage,
     mag_updated |-> mag_updated, baro_updated |-> baro_updated,
     gps_updated |-> gps_updated, gps_vel_updated |-> gps_vel_updated,
     nav_bias |-> nav_gyro_bias, gbsu |-> gyroBiasSettingsUpdated,
     exit |-> "none", wrote |-> {}, recv |-> {}, mag_fresh |-> FALSE,
     mag_computed |-> FALSE,
     bias_computed |-> {}, sensors |-> {}, sim |-> FALSE,
     corrected |-> FALSE, pred_dT |-> {}, magSeed |-> {}, waits |-> {},
     gps_sats |-> 0 - 1,
     gps_pdop |-> 0 - 1,
     magData |-> magData,
     window |-> acc_window,
     bias_window |-> NoWindow,
     baro_since_reset |-> baro_since_reset,
     pushed |-> pushed]

Commit(r) ==
    /\ ret_val' = r.ret
    /\ alarm' = r.alarm
    /\ gyrosBias' = r.bias
    /\ complimentary_filter_status' = r.status
    /\ arming_count' = r.arming_count
    /\ mag_err' = r.mag_err
    /\ gyro_bias_estimation' = r.acc
    /\ inited' = r.inited
    /\ init_stage' = r.init_stage
    /\ mag_updated' = r.mag_updated
    /\ baro_updated' = r.baro_updated
    /\ gps_updated' = r.gps_updated
    /\ gps_vel_updated' = r.gps_vel_updated
    /\ nav_gyro_bias' = r.nav_bias
    /\ gyroBiasSettingsUpdated' = r.gbsu
    /\ exit' = r.exit
    /\ wrote' = r.wrote
    /\ recv' = r.recv
    /\ mag_fresh' = r.mag_fresh
    /\ mag_computed' = r.mag_computed
    /\ bias_computed' = r.bias_computed
    /\ sensors' = r.sensors
    /\ sim' = r.sim
    /\ corrected' = r.corrected
    /\ pred_dT' = r.pred_dT
    /\ magSeed' = r.magSeed
    /\ waits' = r.waits
    /\ gps_sats' = r.gps_sats
    /\ gps_pdop' = r.gps_pdop
    /\ magData' = r.magData
    /\ acc_window' = r.window
    /\ bias_window' = r.bias_window
    /\ baro_since_reset' = r.baro_since_reset
    /\ pushed' = r.pushed
    /\ UNCHANGED <<quatVars, nedVars, comVars, sysVars>>

Got(q, b) == IF b THEN {q} ELSE {}

\* timeouts in ticks (ms / portTICK_RATE_MS, integer division)
Ticks(ms) == ms \div portTICK_RATE_MS
GyroWait == <<"gyro", Ticks(FAILSAFE_TIMEOUT_MS)>>
AccelWait_Failsafe == <<"accel", Ticks(FAILSAFE_TIMEOUT_MS)>>

AccelWait == <<"accel", Ticks(ACCEL_TIMEOUT_MS)>>
InitMagWait == <<"mag", Ticks(INIT_MAG_TIMEOUT_MS)>>
\* a receive with timeout 0
Polled(q) == <<q, 0>>
\* the receives of the gyro/accel wait: accel is only tried after gyro
\* delivered
SensorWaits(gy) == {GyroWait} \cup (IF gy THEN {AccelWait} ELSE {})

\* The gyro receive (FAILSAFE_TIMEOUT_MS) and the paired accel receive:
\* TRUE when the cycle goes on (both arrived, or AttitudeActual is read-only)
SensorsArrived_NoAccel(gy, ac, ro) == gy \/ ro

SensorsArrived(gy, ac, ro) == (gy /\ ac) \/ ro

\* the failsafe return of either update function
Failsafe(s) ==
    [s EXCEPT !.alarm = ALARM_WARNING, !.ret = 0 - 1, !.exit = "timeout"]

\* ----------------------------------------------------------------------
\* Complementary filter
\* ----------------------------------------------------------------------
\* the chain of conditions on complimentary_filter_status
CF_StatusStep_NoTimeGate(s, t, zda, armed) ==
    IF s.status = CF_POWERON THEN [s EXCEPT !.status = CF_INITIALIZING]
    ELSE IF s.status = CF_INITIALIZING THEN [s EXCEPT !.status = CF_NORMAL]
    ELSE s

CF_StatusStep(s, t, zda, armed) ==
    IF s.status = CF_POWERON
    THEN [s EXCEPT !.status = IF t > CF_TICK_POWERON THEN CF_INITIALIZING
                              ELSE CF_POWERON]
    ELSE IF s.status = CF_INITIALIZING /\ t < CF_TICK_INITIALIZING
                                       /\ t > CF_TICK_POWERON
    THEN s
    ELSE IF zda /\ armed
    THEN LET s1 == [s EXCEPT !.arming_count = @ + 1]
         IN  IF s.status # CF_ARMING
             THEN [s1 EXCEPT
                     !.acc = [accumulate_gyro_zero(@) EXCEPT
                                !.accumulating_gyro = TRUE],
                     !.window = NoWindow,
                     !.status = CF_ARMING]
             ELSE s1
    ELSE IF s.status \in {CF_ARMING, CF_INITIALIZING}
    THEN LET s1 ==
               IF s.status = CF_ARMING
               THEN [s EXCEPT
                       !.bias = accumulate_gyro_compute_bias(s.acc, s.bias),
                       !.bias_computed = IF ComputeReady(s.acc)
                                         THEN {MeanGyro(s.acc)} ELSE {},
                       !.bias_window = IF ComputeReady(s.acc)
                                       THEN s.window ELSE @,
                       !.window = IF ComputeReady(s.acc)
                                  THEN NoWindow ELSE @,
                       !.wrote = IF ComputeReady(s.acc)
                                 THEN @ \cup {"GyrosBias"} ELSE @,
                       !.acc = [accumulate_gyro_compute_acc(@) EXCEPT
                                  !.accumulating_gyro = FALSE],
                       !.arming_count = 0]
               ELSE s
         IN  [s1 EXCEPT !.status = CF_NORMAL]
    ELSE s

\* whether FlightStatus.Armed is consulted by the chain
ArmedMatters(s, t, zda) ==
    /\ s.status # CF_POWERON
    /\ ~(s.status = CF_INITIALIZING /\ t < CF_TICK_INITIALIZING
                                    /\ t > CF_TICK_POWERON)
    /\ zda

\* mag_err after the magnetometer block: fresh is the outcome of the
\* receive on magQueue, mag the Magnetometer record, r the yaw of Rbe
MagErr(fresh, mag, hset, be, r, old) ==
    IF ~fresh
    THEN IF NotNaN(mag) /\ hset
         THEN IF Len2(RotZ(be, r)) < 1 \/ Len2(mag.v) < 1 THEN Zero3
              ELSE CrossProduct(mag.v, RotZ(be, r))
         ELSE old
    ELSE Zero3

\* whether the magnetometer block evaluates the cross product
MagErrComputed(fresh, mag, hset, be, r) ==
    ~fresh /\ NotNaN(mag) /\ hset
           /\ ~(Len2(RotZ(be, r)) < 1 \/ Len2(mag.v) < 1)

\* the first-run block: seeds AttitudeActual from the accel and mag readings
CF_FirstRun_ZeroBias(E, s) ==
    \E mg \in (IF magRegistered THEN Poll(E, "mag") ELSE {TRUE}) :
        IF magRegistered /\ ~mg
        THEN Commit([s EXCEPT !.waits = @ \cup {Polled("mag")},
                              !.ret = 0 - 1, !.exit = "nomag"])
        ELSE Commit([s EXCEPT
                       !.waits = IF magRegistered
                                 THEN @ \cup {Polled("mag")} ELSE @,
                       !.recv = @ \cup Got("mag", magRegistered),
                       !.wrote = {"AttitudeActual", "GyrosBias"},
                       !.bias = Zero3,
                       !.status = CF_POWERON,
                       !.arming_count = 0,
                       !.ret = 0, !.exit = "seed"])

\* the reading the first-run block takes the initial yaw from: the assumed
\* (100, 0, 0), replaced by the Magnetometer record m if a magnetometer is
\* registered
AssumedMag == Mag(<<100, 0, 0>>)

SeedReading_Measured(reg, m) == m

SeedReading(reg, m) == IF reg THEN m ELSE AssumedMag

CF_FirstRun(E, s) ==
    \E mg \in (IF magRegistered THEN Poll(E, "mag") ELSE {TRUE}) :
    \E m \in (IF magRegistered /\ ~mg THEN {s.magData} ELSE E.mag) :
        IF magRegistered /\ ~mg
        THEN Commit([s EXCEPT !.waits = @ \cup {Polled("mag")},
                              !.ret = 0 - 1, !.exit = "nomag"])
        ELSE Commit([s EXCEPT
                       !.waits = IF magRegistered
                                 THEN @ \cup {Polled("mag")} ELSE @,
                       !.recv = @ \cup Got("mag", magRegistered),
                       !.magSeed = {SeedReading(magRegistered, m)},
                       !.wrote = {"AttitudeActual"},
                       !.status = CF_POWERON,
                       !.arming_count = 0,
                       !.ret = 0, !.exit = "seed"])

\* the records written from a pending GPS position sample (gq) and a
\* pending GPS velocity sample (gv) at the end of the cycle
CF_Passthrough_NoHomeCheck(gq, gv, hset) ==
    (IF gq THEN {"NEDPosition", "PositionActual"} ELSE {})
    \cup (IF gv THEN {"VelocityActual"} ELSE {})

CF_Passthrough(gq, gv, hset) ==
    (IF gq /\ hset THEN {"NEDPosition", "PositionActual"} ELSE {})
    \cup (IF gv THEN {"VelocityActual"} ELSE {})

\* the end of a cycle that ran to completion
CF_Success_NoClear(s) == [s EXCEPT !.ret = 0, !.exit = "ok"]

CF_Success(s) == [s EXCEPT !.alarm = ALARM_OK, !.ret = 0, !.exit = "ok"]

CF_Cycle(E, s) ==
    \E armed \in (IF ArmedMatters(s, tick, ZeroDuringArming)
                  THEN BOOLEAN ELSE {FALSE}) :
      LET s1 == CF_StatusStep(s, tick, ZeroDuringArming, armed) IN
      /\ s1.arming_count <= E.cap
      /\ s1.acc.accumulating_gyro
            => s1.acc.accumulated_gyro_samples < E.cap
      /\ \E g \in (IF s1.acc.accumulating_gyro THEN E.gyro ELSE {Zero3}) :
         \E mg \in Poll(E, "mag") :
         \E m \in E.mag :
         \E r \in (IF mg \/ ~NotNaN(m) \/ ~homeSet THEN {0} ELSE {0, 1}) :
         \E ae \in E.aerr :
         \E bq \in Poll(E, "baro") :
         \E gq \in Poll(E, "gps") :
         \E gv \in Poll(E, "gpsVel") :
           LET me == MagErr(mg, m, homeSet, homeBe, r, s1.mag_err)
               b  == <<s1.bias[1] - ae[1], s1.bias[2] - ae[2],
                       s1.bias[3] - me[3]>>
           IN  /\ InBias(b)
               /\ Commit(CF_Success([s1 EXCEPT
                    !.acc = accumulate_gyro(@, g, s1.bias),
                    !.window = IF s1.acc.accumulating_gyro
                               THEN [n |-> @.n + 1,
                                     vs |-> @.vs \cup {g},
                                     bs |-> @.bs \cup {s1.bias}]
                               ELSE @,
                    !.magData = m,
                    !.mag_err = me,
                    !.mag_fresh = mg,
                    !.mag_computed = MagErrComputed(mg, m, homeSet, homeBe, r),
                    !.bias = b,
                    !.waits = @ \cup {Polled("mag"), Polled("baro"),
                                      Polled("gps"), Polled("gpsVel")},
                    !.recv = @ \cup Got("mag", mg) \cup Got("baro", bq)
                               \cup Got("gps", gq) \cup Got("gpsVel", gv),
                    !.wrote = @ \cup {"GyrosBias", "AttitudeActual"}
                        \cup CF_Passthrough(gq, gv, homeSet)]))

updateAttitudeComplementary(E) ==
    \E gy \in Poll(E, "gyro") :
    \E ac \in (IF gy THEN Poll(E, "accel") ELSE {FALSE}) :
    \E ro \in (IF gy /\ ac THEN {FALSE} ELSE E.readonly) :
      LET s0 == [Cur EXCEPT !.recv = Got("gyro", gy) \cup Got("accel", ac),
                            !.waits = SensorWaits(gy),
                            !.sim = ro]
      IN  IF ~SensorsArrived(gy, ac, ro)
          THEN Commit(Failsafe(s0))
          ELSE IF first_run THEN CF_FirstRun(E, s0)
          ELSE CF_Cycle(E, s0)

\* ----------------------------------------------------------------------
\* Navigation filter (INSGPS)
\* ----------------------------------------------------------------------
Deg2Rad3(b) == <<b[1] * MICRORAD_PER_DEG, b[2] * MICRORAD_PER_DEG,
                 b[3] * MICRORAD_PER_DEG>>
Rad2Deg3(b) == <<FDiv(b[1], MICRORAD_PER_DEG), FDiv(b[2], MICRORAD_PER_DEG),
                 FDiv(b[3], MICRORAD_PER_DEG)>>

\* mag_updated after the receive and the two discards
MagUpdated_FreshOnly(old, mg, mag, be) ==
    mg /\ NotNaN(mag) /\ (be[1] # 0 \/ be[2] # 0 \/ be[3] # 0)

MagUpdated(old, mg, mag, be) ==
    (old \/ mg) /\ NotNaN(mag) /\ (be[1] # 0 \/ be[2] # 0 \/ be[3] # 0)

\* gps_updated after the receive and the minimum requirement
GpsUpdated_NoSatCheck(old, gq, outdoor, sats, pdop, hset) ==
    (old \/ (gq /\ outdoor)) /\ pdop <= GPS_MAX_PDOP /\ hset

GpsUpdated(old, gq, outdoor, sats, pdop, hset) ==
    (old \/ (gq /\ outdoor))
        /\ sats >= GPS_MIN_SATELLITES /\ pdop <= GPS_MAX_PDOP /\ hset

\* the alarm policy of a cycle that reaches it
InsAlarm_NoSatCheck(ini, outdoor, sats) ==
    IF ~ini THEN ALARM_ERROR ELSE ALARM_OK

InsAlarm(ini, outdoor, sats) ==
    IF ~ini THEN ALARM_ERROR
    ELSE IF outdoor /\ sats < GPS_MIN_SATELLITES THEN ALARM_ERROR
    ELSE ALARM_OK

\* guard of the initialization block
InitReady_NoBaro(ini, mu, bu, gu, outdoor) ==
    ~ini /\ mu /\ (gu \/ ~outdoor)

InitReady_NoIndoor(ini, mu, bu, gu, outdoor) ==
    ~ini /\ mu /\ bu /\ gu

InitReady(ini, mu, bu, gu, outdoor) ==
    ~ini /\ mu /\ bu /\ (gu \/ ~outdoor)

\* the sensor availability mask handed to INSCorrection
SensorMask(s, outdoor) ==
    (IF s.mag_updated THEN {"MAG_SENSORS"} ELSE {})
    \cup (IF s.baro_updated THEN {"BARO_SENSOR"} ELSE {})
    \cup (IF s.gps_updated /\ outdoor THEN {"POS_SENSORS"}
          ELSE IF ~outdoor
          THEN {"HORIZ_SENSORS", "HORIZ_POS_SENSORS", "POS_SENSORS",
                "VERT_SENSORS"}
          ELSE {})
    \cup (IF s.gps_vel_updated /\ outdoor
          THEN {"HORIZ_SENSORS", "VERT_SENSORS"} ELSE {})

\* the clamp of dT before the prediction of an initialized cycle
ClampDT(dt) ==
    IF dt > DT_MAX_US THEN DT_MAX_US
    ELSE IF dt <= DT_MIN_US THEN DT_MIN_US
    ELSE dt

\* the initialization block: stage 0 resets the filter, waits for a
\* magnetometer sample, reads the Magnetometer record again and seeds the
\* attitude from it; later stages run INSStatePrediction over the elapsed
\* time as measured
INS_Init(E, s) ==
    \E m2 \in (IF s.init_stage = 0 THEN Poll(E, "mag") ELSE {FALSE}) :
    \E el \in (IF s.init_stage = 0 THEN {0} ELSE E.elapsed) :
    \E mm \in (IF m2 THEN E.mag ELSE {s.magData}) :
        Commit([s EXCEPT
                  !.pred_dT = IF s.init_stage = 0 THEN {} ELSE {el},
                  !.magSeed = IF s.init_stage = 0 THEN {mm} ELSE {},
                  !.nav_bias = IF s.init_stage = 0 THEN Deg2Rad3(s.bias)
                               ELSE @,
                  !.waits = IF s.init_stage = 0
                            THEN @ \cup {InitMagWait} ELSE @,
                  !.recv = @ \cup Got("mag", m2),
                  !.wrote = {"AttitudeActual"},
                  !.init_stage = @ + 1,
                  !.inited = s.init_stage + 1 > INS_INIT_STAGES,
                  !.ret = 0,
                  !.exit = IF s.init_stage = 0 THEN "init0" ELSE "init"])

\* the condition under which the filter's bias estimate is copied into
\* GyrosBias at the end of the cycle: flag is gyroBiasSettingsUpdated as it
\* reads there
BiasPublished_Always(bcg, flag) == bcg

BiasPublished(bcg, flag) == bcg /\ ~flag

\* an initialized cycle: prediction, correction, publication.  p is the
\* set holding the InitialGyroBias a settingsUpdatedCb call stores while
\* the cycle computes (after the flag was consumed), empty if none does.
\* "if (sensors) INSCorrection(...)"
CorrectionInvoked_Always(mask) == TRUE

CorrectionInvoked(mask) == mask # {}

INS_Run(E, s, outdoor) ==
    LET mask == SensorMask(s, outdoor)
    IN  \E d \in (IF CorrectionInvoked(mask) THEN E.drift ELSE {Zero3}) :
        \E e \in E.earlypush :
        \E p \in E.midpush :
        \E l \in E.latepush :
        \E el \in E.elapsed :
          LET \* the flag as tested before the prediction; s.bias is the
              \* copy GyrosBiasGet made before an early push
              flag == s.gbsu \/ e # {}
              nb1 == IF flag THEN Deg2Rad3(s.bias) ELSE s.nav_bias
              owed1 == IF e # {} THEN e ELSE s.pushed
              owed2 == IF flag /\ owed1 = {s.bias} THEN {} ELSE owed1
              rec1 == IF e # {} THEN CHOOSE v \in e : TRUE ELSE s.bias
              nb2 == Add3(nb1, d)
              pub == BiasPublished(BiasCorrectGyro, p # {})
              b0  == IF p # {} THEN CHOOSE v \in p : TRUE ELSE rec1
              \* a late push is overwritten by the cycle's GyrosBiasSet
              late == pub /\ l # {}
              b   == IF pub THEN Rad2Deg3(nb2) ELSE b0
          IN  /\ InBias(b) /\ InBias(Rad2Deg3(nb2))
              /\ Commit([s EXCEPT
                   !.gbsu = (p # {}) \/ late,
                   !.pushed = IF late THEN l
                              ELSE IF p # {} THEN p ELSE owed2,
                   !.nav_bias = nb2,
                   !.bias = b,
                   !.sensors = mask,
                   !.corrected = CorrectionInvoked(mask),
                   !.pred_dT = {ClampDT(el)},
                   !.wrote = {"AttitudeActual", "PositionActual",
                              "VelocityActual"}
                       \cup (IF s.gps_updated /\ outdoor
                             THEN {"NEDPosition"} ELSE {})
                       \cup (IF pub THEN {"GyrosBias"} ELSE {}),
                   !.ret = 0, !.exit = "run"])

\* "if (!inited) return 0" after the initialization block
StallsUninitialized_Never(ini) == FALSE

StallsUninitialized(ini) == ~ini

INS_Cycle(E, s, outdoor) ==
    \E mg \in Poll(E, "mag") :
    \E bq \in Poll(E, "baro") :
    \E gq \in Poll(E, "gps") :
    \E gv \in Poll(E, "gpsVel") :
    \E m \in E.mag :
    \E sats \in E.sats :
    \E pdop \in E.pdop :
      LET mu == MagUpdated(s.mag_updated, mg, m, homeBe)
          bu == s.baro_updated \/ bq
          gu == GpsUpdated(s.gps_updated, gq, outdoor, sats, pdop, homeSet)
          gvu == s.gps_vel_updated \/ (gv /\ outdoor)
          s1 == [s EXCEPT
                   !.mag_updated = mu, !.baro_updated = bu,
                   !.gps_updated = gu, !.gps_vel_updated = gvu,
                   !.waits = @ \cup {Polled("mag"), Polled("baro"),
                                     Polled("gps"), Polled("gpsVel")},
                   !.recv = @ \cup Got("mag", mg) \cup Got("baro", bq)
                              \cup Got("gps", gq) \cup Got("gpsVel", gv),
                   !.gps_sats = sats,
                   !.gps_pdop = pdop,
                   !.magData = m,
                   !.baro_since_reset = @ \/ bq,
                   !.alarm = InsAlarm(s.inited, outdoor, sats)]
      IN  IF InitReady(s.inited, mu, bu, gu, outdoor) THEN INS_Init(E, s1)
          ELSE IF StallsUninitialized(s.inited)
          THEN Commit([s1 EXCEPT !.ret = 0, !.exit = "stall"])
          ELSE INS_Run(E, s1, outdoor)

\* the return taken when INSGPSGetNav() is NULL
NavUnavailable_Warns(s) ==
    [s EXCEPT !.alarm = ALARM_WARNING, !.ret = 0 - 1, !.exit = "navnull"]

NavUnavailable(s) == [s EXCEPT !.ret = 0 - 1, !.exit = "navnull"]

updateAttitudeINSGPS(E, outdoor) ==
    \E nn \in E.navnull :
      IF nn THEN Commit(NavUnavailable(Cur))
      ELSE
        \E gy \in Poll(E, "gyro") :
        \E ac \in (IF gy THEN Poll(E, "accel") ELSE {FALSE}) :
        \E ro \in (IF gy /\ ac THEN {FALSE} ELSE E.readonly) :
          LET s0 == [Cur EXCEPT
                       !.recv = Got("gyro", gy) \cup Got("accel", ac),
                       !.waits = SensorWaits(gy),
                       !.sim = ro]
              s1 == IF s0.inited
                    THEN [s0 EXCEPT !.mag_updated = FALSE,
                                    !.baro_updated = FALSE,
                                    !.gps_updated = FALSE,
                                    !.gps_vel_updated = FALSE]
                    ELSE s0
          IN  IF ~SensorsArrived(gy, ac, ro)
              THEN Commit(Failsafe(s0))
              ELSE IF first_run
              THEN Commit([s1 EXCEPT !.inited = FALSE, !.init_stage = 0,
                                     !.mag_updated = FALSE,
                                     !.baro_updated = FALSE,
                                     !.gps_updated = FALSE,
                                     !.gps_vel_updated = FALSE,
                                     !.baro_since_reset = FALSE,
                                     !.ret = 0, !.exit = "reset"])
              ELSE INS_Cycle(E, s1, outdoor)

\* ----------------------------------------------------------------------
\* AttitudeTask: one loop iteration is the change check (TaskCheck) and
\* the dispatch with the tail of the loop body (TaskDispatch); ret_val
\* holds the value of the latest dispatch (the loop resets it to -1 before
\* each dispatch, which is where Cur starts from);
\* settingsUpdatedCb runs in another task and may run between the two.
\* ----------------------------------------------------------------------
AlgorithmChanged(last, alg) == last # alg

\* the record of the consecutive first-run iterations
NextChain(ch, fr, fn) ==
    IF fn = "none" THEN ch
    ELSE IF ~fr THEN <<>>
    ELSE IF Len(ch) < 2 THEN Append(ch, fn)
    ELSE <<ch[2], fn>>

NextFirstRun_Always(fr, ret) == FALSE

\* first_run after "if (ret_val == 0) first_run = false"
NextFirstRun(fr, ret) == IF ret = 0 THEN FALSE ELSE fr

\* PIOS_WDG_UpdateFlag at the end of the loop body: n counts the refreshes
\* of the iteration, ret is ret_val
WdgRefresh_OnSuccess(n, ret) == IF ret = 0 THEN n + 1 ELSE n

WdgRefresh(n, ret) == n + 1

TaskCheck ==
    /\ pc = "check"
    /\ ret_val' = ret_val
    /\ IF AlgorithmChanged(last_algorithm, FusionAlgorithm)
       THEN last_algorithm' = FusionAlgorithm /\ first_run' = TRUE
       ELSE UNCHANGED <<last_algorithm, first_run>>
    /\ wdg_refresh' = 0
    /\ pc' = "dispatch"
    /\ UNCHANGED <<settingVars, gyrosBias, alarm, cfVars,
                   gyro_bias_estimation, insVars, envVars, dispatched,
                   called, called_first_run, exit, wrote,
                   recv, mag_fresh, mag_computed, bias_computed, sensors,
                   sim, corrected, pred_dT, magSeed, fr_chain, waits, gps_sats,
                   gps_pdop, magData, acc_window,
                   bias_window,
                   baro_since_reset, quatVars, nedVars, comVars, pushed,
                   sysVars>>

TaskDispatch(E) ==
    /\ pc = "dispatch"
    /\ dispatched' = FusionAlgorithm
    /\ called_first_run' = first_run
    /\ CASE FusionAlgorithm = ALG_COMPLEMENTARY ->
              /\ updateAttitudeComplementary(E)
              /\ called' = "updateAttitudeComplementary"
         [] FusionAlgorithm = ALG_INSOUTDOOR ->
              /\ updateAttitudeINSGPS(E, TRUE)
              /\ called' = "updateAttitudeINSGPS"
         [] FusionAlgorithm = ALG_INSINDOOR ->
              /\ updateAttitudeINSGPS(E, FALSE)
              /\ called' = "updateAttitudeINSGPS"
         [] OTHER ->
              /\ Commit([Cur EXCEPT !.alarm = ALARM_CRITICAL,
                                    !.exit = "default"])
              /\ called' = "none"
    /\ first_run' = NextFirstRun(first_run, ret_val')
    /\ wdg_refresh' = WdgRefresh(wdg_refresh, ret_val')
    /\ fr_chain' = NextChain(fr_chain, first_run, called')
    /\ pc' = "check"
    /\ UNCHANGED <<last_algorithm, FusionAlgorithm, homeSet, homeBe,
                   ZeroDuringArming, BiasCorrectGyro, envVars>>

\* ----------------------------------------------------------------------
\* settingsUpdatedCb, one action per object of the event
\* ----------------------------------------------------------------------
RevoSettingsUpdated(E) ==
    /\ \E a \in E.algs : FusionAlgorithm' = a
    /\ UNCHANGED <<taskVars, homeSet, homeBe, gyroBiasSettingsUpdated,
                   ZeroDuringArming, BiasCorrectGyro, gyrosBias, alarm,
                   cfVars, gyro_bias_estimation, insVars, envVars, obsVars,
                   quatVars, nedVars, comVars, pushed, sysVars>>

InertialSensorSettingsUpdated(E) ==
    /\ \E b \in E.biasset : gyrosBias' = b /\ pushed' = {b}
    /\ gyroBiasSettingsUpdated' = TRUE
    /\ UNCHANGED <<taskVars, FusionAlgorithm, homeSet, homeBe,
                   ZeroDuringArming, BiasCorrectGyro, alarm, cfVars,
                   gyro_bias_estimation, insVars, envVars, obsVars,
                   quatVars, nedVars, comVars, sysVars>>

HomeLocationUpdated(E) ==
    /\ \E h \in E.home : homeSet' = h.Set /\ homeBe' = h.Be
    /\ \E l \in E.homella :
          homeLocation' = l /\ T' = NedCoefficients(l)
    /\ UNCHANGED <<taskVars, FusionAlgorithm, gyroBiasSettingsUpdated,
                   ZeroDuringArming, BiasCorrectGyro, gyrosBias, alarm,
                   cfVars, gyro_bias_estimation, insVars, envVars, obsVars,
                   quatVars, gpsPosition, NED, comVars, pushed, sysVars>>

AttitudeSettingsUpdated(E) ==
    /\ \E a \in E.attset :
          ZeroDuringArming' = a.ZeroDuringArming
          /\ BiasCorrectGyro' = a.BiasCorrectGyro
    /\ UNCHANGED <<taskVars, FusionAlgorithm, homeSet, homeBe,
                   gyroBiasSettingsUpdated, gyrosBias, alarm, cfVars,
                   gyro_bias_estimation, insVars, envVars, obsVars,
                   quatVars, nedVars, comVars, pushed, sysVars>>

\* the FreeRTOS tick count read by xTaskGetTickCount
Tick ==
    /\ \E t \in TickVals : t > tick /\ tick' = t
    /\ magRegistered' = magRegistered
    /\ portTICK_RATE_MS' = portTICK_RATE_MS
    /\ UNCHANGED <<taskVars, settingVars, gyrosBias, alarm, cfVars,
                   gyro_bias_estimation, insVars, obsVars, quatVars,
                   nedVars, comVars, pushed, sysVars>>

\* ----------------------------------------------------------------------
\* The state when the task loop is entered: AttitudeStart has zeroed
\* GyrosBias, settingsUpdatedCb(NULL) has loaded every settings object
\* (and so set gyroBiasSettingsUpdated), last_algorithm is invalidated.
\* ----------------------------------------------------------------------
\* the integration step of updateAttitudeComplementary, on the quaternion
\* and the rates read
IntegrateQuaternion ==
    /\ quat_out = <<>>
    /\ qmag' = QMag(SignFlip(Integrated(quat_in, quat_rate)))
    /\ quat_out' = Published(quat_in, quat_rate)
    /\ UNCHANGED <<taskVars, settingVars, gyrosBias, alarm, cfVars,
                   gyro_bias_estimation, insVars, envVars, obsVars,
                   quat_in, quat_rate, nedVars, comVars, pushed, sysVars>>

\* GPSPositionGet and getNED on a fix
ConvertFix(E) ==
    /\ \E o \in E.fixes :
          /\ gpsPosition' = FixAt(homeLocation, o)
          /\ NED' = getNED(gpsPosition', homeLocation, T)
    /\ UNCHANGED <<taskVars, settingVars, gyrosBias, alarm, cfVars,
                   gyro_bias_estimation, insVars, envVars, obsVars,
                   quatVars, homeLocation, T, comVars, pushed, sysVars>>

\* no PIOS_COM_SendBufferNonBlocking call to report
NoCall ==
    [called |-> FALSE, available |-> TRUE, buffer |-> <<>>,
     tx |-> <<>>, sendbuffer_mtx |-> "free", drained |-> 0]

\* the periodic event SystemModStart registers for systemPeriodicCb
SYSTEM_CB == 0
SYSTEM_UPDATE_PERIOD_MS == 113
\* no operation has run on the list of periodic events
NotAnOp == [name |-> "none"]

InitEnv(E) ==
    /\ pc = "check"
    /\ first_run = TRUE
    /\ last_algorithm = ALG_INVALID
    /\ ret_val = 0 - 1
    /\ FusionAlgorithm \in E.algs
    /\ \E h \in E.home : homeSet = h.Set /\ homeBe = h.Be
    /\ gyroBiasSettingsUpdated = TRUE
    /\ \E a \in E.attset :
          ZeroDuringArming = a.ZeroDuringArming
          /\ BiasCorrectGyro = a.BiasCorrectGyro
    /\ gyrosBias \in E.biasset
    /\ pushed = {gyrosBias}
    /\ alarm = ALARM_OK
    /\ complimentary_filter_status = CF_POWERON
    /\ arming_count = 0
    /\ mag_err = Zero3
    /\ gyro_bias_estimation =
          [accumulated_gyro |-> Zero3, accumulated_gyro_samples |-> 0,
           accumulating_gyro |-> FALSE]
    /\ inited = FALSE
    /\ init_stage = 0
    /\ mag_updated = FALSE
    /\ baro_updated = FALSE
    /\ gps_updated = FALSE
    /\ gps_vel_updated = FALSE
    /\ nav_gyro_bias = Zero3
    /\ tick \in E.tick0
    /\ magRegistered \in E.magreg
    /\ portTICK_RATE_MS \in E.tickms
    /\ dispatched = ALG_INVALID
    /\ called = "none"
    /\ called_first_run = FALSE
    /\ exit = "none"
    /\ wrote = {}
    /\ recv = {}
    /\ mag_fresh = FALSE
    /\ mag_computed = FALSE
    /\ bias_computed = {}
    /\ sensors = {}
    /\ sim = FALSE
    /\ wdg_refresh = 0
    /\ corrected = FALSE
    /\ pred_dT = {}
    /\ magSeed = {}
    /\ fr_chain = <<>>
    /\ waits = {}
    /\ gps_sats = 0 - 1
    /\ gps_pdop = 0 - 1
    /\ magData = Mag(Zero3)
    /\ acc_window = NoWindow
    /\ bias_window = NoWindow
    /\ baro_since_reset = FALSE
    /\ quat_in \in E.quats
    /\ quat_rate \in E.rates
    /\ qmag = Fin(FScale)
    /\ quat_out = <<>>
    /\ homeLocation \in E.homella
    /\ T = NedCoefficients(homeLocation)
    /\ \E o \in E.fixes : gpsPosition = FixAt(homeLocation, o)
    /\ NED = <<>>
    /\ mutex = [owner |-> "none", count |-> 0]
    /\ objList = <<[key |-> SYSTEM_CB,
                    updatePeriodMs |-> SYSTEM_UPDATE_PERIOD_MS]>>
    /\ ev_op = NotAnOp
    /\ ev_ret = 0
    /\ config_check_needed = FALSE
    /\ cb_pc = "idle"
    /\ unchecked = FALSE
    /\ com_valid \in E.ports
    /\ tx = <<>>
    /\ sendbuffer_mtx = "free"
    /\ com_ret = 0
    /\ com_call = NoCall

\* ----------------------------------------------------------------------
\* Environments.  EnvBase: every sensor delivers in every cycle, readings
\* are valid, the home location is set, nothing is reconfigured.
\* ----------------------------------------------------------------------
EnvBase ==
    [cap |-> MaxArming, on |-> Queues, opt |-> {},
     gyro |-> {<<1, 1, 1>>}, aerr |-> {Zero3},
     mag |-> {Mag(UnitX)}, sats |-> {7}, pdop |-> {40},
     drift |-> {Zero3}, algs |-> {ALG_COMPLEMENTARY},
     biasset |-> {Zero3},
     home |-> {[Set |-> TRUE, Be |-> UnitX]},
     attset |-> {[ZeroDuringArming |-> FALSE, BiasCorrectGyro |-> TRUE]},
     tick0 |-> {7000}, magreg |-> {TRUE}, readonly |-> {FALSE},
     navnull |-> {FALSE}, midpush |-> {{}}, earlypush |-> {{}},
     latepush |-> {{}}, tickms |-> {1},
     elapsed |-> {2000}, ports |-> {TRUE},
     quats |-> {QIdentity}, rates |-> {<<Fin(0), Fin(0), Fin(0)>>},
     homella |-> {[Latitude |-> 0, Longitude |-> 0, Altitude |-> 0]},
     fixes |-> {[dLat |-> 0, dLon |-> 0, dAlt |-> 0, Geoid |-> 0]}]

\* ----------------------------------------------------------------------
\* Spec: the task loop with both filters; the algorithm selection changes
\* at any point, gyro and accel samples may time out.
\* ----------------------------------------------------------------------
EnvMain ==
    [EnvBase EXCEPT !.algs = Algorithms,
                    !.opt = {"gyro", "accel"},
                    !.on = {"mag", "baro"},
                    !.readonly = BOOLEAN]

Init == InitEnv(EnvMain)

Next ==
    \/ TaskCheck
    \/ TaskDispatch(EnvMain)
    \/ RevoSettingsUpdated(EnvMain)

Spec == Init /\ [][Next]_vars

\* ----------------------------------------------------------------------
\* Claims checked under Spec
\* ----------------------------------------------------------------------
\* a step that runs the dispatch of one loop iteration
IterationStep == pc = "dispatch" /\ pc' = "check"
UpdateFns == {"updateAttitudeComplementary", "updateAttitudeINSGPS"}

\* C1: whenever the algorithm whose update function an iteration dispatches
\* differs from the one the previous iteration dispatched, the update
\* function is called with first_run = TRUE, for every interleaving with
\* settingsUpdatedCb.
C1_SwitchForcesFirstRun ==
    [][(IterationStep /\ called \in UpdateFns /\ called' \in UpdateFns
          /\ dispatched' # dispatched) => called_first_run']_vars

\* C2: an update called with first_run = TRUE that returns -1 is followed
\* by an update called with first_run = TRUE again, and first_run becomes
\* FALSE only in an iteration whose update function returned 0.
C2_FailureKeepsFirstRun ==
    [][/\ (IterationStep /\ called \in UpdateFns /\ called_first_run
             /\ ret_val = 0 - 1 /\ called' \in UpdateFns)
          => called_first_run'
       /\ (first_run /\ ~first_run')
          => (IterationStep /\ called' \in UpdateFns /\ ret_val' = 0)]_vars

\* a first-run call has failed and first_run is still set for the retry
C2_Witness ==
    /\ pc = "check" /\ called \in UpdateFns /\ called_first_run
    /\ ret_val = 0 - 1 /\ first_run

\* C3: a cycle of either filter whose gyro or accel receive times out while
\* AttitudeActual is not read-only returns -1, sets the alarm to WARNING
\* and changes nothing else: no record is published, GyrosBias, the
\* complementary filter status, inited, init_stage and the four
\* sensor-updated flags are as before the cycle.
C3_TimeoutChangesNothing ==
    [][(IterationStep /\ called' \in UpdateFns /\ exit' # "navnull"
          /\ ~({"gyro", "accel"} \subseteq recv') /\ ~sim')
       => /\ ret_val' = 0 - 1
          /\ alarm' = ALARM_WARNING
          /\ wrote' = {}
          /\ gyrosBias' = gyrosBias
          /\ complimentary_filter_status' = complimentary_filter_status
          /\ inited' = inited /\ init_stage' = init_stage
          /\ mag_updated' = mag_updated /\ baro_updated' = baro_updated
          /\ gps_updated' = gps_updated
          /\ gps_vel_updated' = gps_vel_updated]_vars

\* a navigation filter cycle timed out on the accel receive with the filter
\* initialized and its flags kept
C3_Witness ==
    /\ pc = "check" /\ called = "updateAttitudeINSGPS" /\ exit = "timeout"
    /\ recv = {"gyro"} /\ ~sim /\ inited /\ baro_updated
    /\ alarm = ALARM_WARNING /\ complimentary_filter_status = CF_NORMAL

\* C4: an iteration whose FusionAlgorithm is none of the three sets the
\* alarm to CRITICAL, calls no filter, takes nothing from a queue,
\* publishes nothing and leaves first_run TRUE.
C4_UnknownAlgorithm ==
    (pc = "check" /\ dispatched = ALG_OTHER)
       => (alarm = ALARM_CRITICAL /\ called = "none" /\ recv = {}
           /\ wrote = {} /\ first_run)

\* C7 (as stated): after every call of updateAttitudeComplementary that
\* returns 0, the first-run seeding cycle included, the alarm is cleared.
C7_SuccessClearsAlarm ==
    (pc = "check" /\ called = "updateAttitudeComplementary" /\ ret_val = 0)
       => alarm = ALARM_OK

\* C7 (amended): after every call of updateAttitudeComplementary that
\* returns 0 and is not the first-run seeding cycle the alarm is cleared;
\* the seeding cycle returns 0 and leaves the alarm as it was.
C7_CycleClearsAlarm ==
    [][(IterationStep /\ called' = "updateAttitudeComplementary"
          /\ ret_val' = 0)
       => IF called_first_run' THEN alarm' = alarm
          ELSE alarm' = ALARM_OK]_vars

\* a cycle after the seeding has returned 0 with the alarm cleared
C7_Witness ==
    /\ pc = "check" /\ called = "updateAttitudeComplementary"
    /\ ~called_first_run /\ ret_val = 0 /\ exit = "ok"
    /\ alarm = ALARM_OK
    /\ {"gyro", "accel"} \subseteq recv /\ "AttitudeActual" \in wrote

\* ----------------------------------------------------------------------
\* SpecINS: the task loop in the two navigation filter modes; barometer
\* the gyro wait may time out (also with AttitudeActual read-only),
\* magnetometer, barometer and GPS position events may or may not be
\* pending when polled, the magnetometer reading may hold a NaN and the
\* satellite count is on either side of the minimum.
\* ----------------------------------------------------------------------
EnvINS ==
    [EnvBase EXCEPT !.algs = {ALG_INSINDOOR, ALG_INSOUTDOOR},
                    !.opt = {"gyro", "mag", "baro", "gps"},
                    !.on = {"accel", "gpsVel"},
                    !.mag = {Mag(UnitX), MagNaN(UnitX, 2)},
                    !.readonly = BOOLEAN,
                    !.sats = SatVals]

InitINS == InitEnv(EnvINS)

NextINS ==
    \/ TaskCheck
    \/ TaskDispatch(EnvINS)
    \/ RevoSettingsUpdated(EnvINS)

SpecINS == InitINS /\ [][NextINS]_vars

\* ----------------------------------------------------------------------
\* Claims checked under SpecINS
\* ----------------------------------------------------------------------
\* a navigation filter call that got past the gyro/accel wait
PastWait ==
    called = "updateAttitudeINSGPS" /\ exit \notin {"navnull", "timeout"}

\* C5 (as stated): after every navigation filter cycle that gets past the
\* gyro/accel wait the alarm is ERROR if the filter is not initialized or
\* (outdoor mode) the satellite count is below 7, and OK otherwise.
C5_AlarmAfterEveryCycle ==
    (pc = "check" /\ PastWait)
       => alarm = IF ~inited \/ (dispatched = ALG_INSOUTDOOR
                                   /\ exit # "reset"
                                   /\ gps_sats < GPS_MIN_SATELLITES)
                  THEN ALARM_ERROR ELSE ALARM_OK

\* C5 (amended): a first-run reset cycle leaves the alarm as it was; every
\* other navigation filter cycle that gets past the gyro/accel wait sets
\* the alarm to ERROR if the filter was not initialized when the cycle
\* began or (outdoor mode) the satellite count is below 7, and clears it
\* otherwise.
C5_AlarmPolicy ==
    [][(IterationStep /\ called' = "updateAttitudeINSGPS")
       => /\ exit' = "reset" => alarm' = alarm
          /\ exit' \in {"stall", "init0", "init", "run"}
               => alarm' = IF ~inited \/ (dispatched' = ALG_INSOUTDOOR
                                   /\ gps_sats' < GPS_MIN_SATELLITES)
                           THEN ALARM_ERROR ELSE ALARM_OK]_vars

\* an initialized outdoor cycle has raised ERROR for a satellite count of 6
C5_Witness ==
    /\ pc = "check" /\ PastWait /\ exit = "run"
    /\ dispatched = ALG_INSOUTDOOR /\ inited /\ gps_sats = 6
    /\ alarm = ALARM_ERROR

\* C6: as long as the navigation filter has taken no barometer event since
\* its latest first-run reset, init_stage is 0 and the filter is not
\* initialized, whatever the other sensors delivered.
C6_NoBaroNoInit ==
    ~baro_since_reset => (init_stage = 0 /\ ~inited)

\* a cycle with magnetometer and GPS position available has stalled at
\* stage 0 for lack of a barometer sample
C6_Witness ==
    /\ pc = "check" /\ PastWait /\ exit = "stall"
    /\ ~baro_since_reset /\ mag_updated /\ gps_updated /\ ~baro_updated
    /\ init_stage = 0 /\ ~inited

\* C13: a navigation filter cycle that starts with the filter not
\* initialized invokes no INSCorrection and writes neither PositionActual
\* nor VelocityActual; this includes the cycle that marks the filter
\* initialized, so correction first occurs in a later cycle.
C13_NoCorrectionBeforeInit ==
    [][(IterationStep /\ called' = "updateAttitudeINSGPS" /\ ~inited)
       => /\ exit' # "run" /\ sensors' = {}
          /\ "PositionActual" \notin wrote'
          /\ "VelocityActual" \notin wrote'
          /\ "NEDPosition" \notin wrote']_vars

\* the cycle that marks the filter initialized has published the attitude
\* only, without a correction
C13_Witness ==
    /\ pc = "check" /\ called = "updateAttitudeINSGPS" /\ exit = "init"
    /\ inited /\ init_stage = INS_INIT_STAGES + 1
    /\ sensors = {} /\ wrote = {"AttitudeActual"}
    /\ mag_updated /\ baro_updated

\* C15: every iteration of the task loop refreshes the watchdog flag
\* exactly once, at the end of the dispatch step, whether the update
\* returned 0 or -1 or the algorithm was not recognized; nothing else
\* refreshes it.
C15_WatchdogOncePerIteration ==
    [][/\ IterationStep => (wdg_refresh = 0 /\ wdg_refresh' = 1)
       /\ ~IterationStep => wdg_refresh' \in {0, wdg_refresh}]_vars

\* an iteration with an unrecognized algorithm has refreshed the watchdog
C15_Witness ==
    /\ pc = "check" /\ dispatched = ALG_OTHER /\ called = "none"
    /\ exit = "default" /\ ret_val = 0 - 1 /\ wdg_refresh = 1

\* a navigation filter cycle that polls the four sensor queues
NavCycle ==
    /\ IterationStep /\ called' = "updateAttitudeINSGPS"
    /\ exit' \in {"stall", "init0", "init", "run"}

\* the validity tests of the cycle on the records it read
MagValid == NotNaN(magData) /\ homeBe # Zero3
GpsQualifies == gps_sats >= 7 /\ gps_pdop <= 40 /\ homeSet

\* C28: in a cycle of the uninitialized filter each flag is set if it was
\* set before or its queue delivered in this cycle (GPS: outdoor mode
\* only), provided the record read still passes its validity test (the
\* barometer flag is set exactly if a barometer sample came since the
\* first-run reset); initialization stage 0 runs in exactly the cycles
\* with init_stage 0 in which the magnetometer flag, the barometer flag
\* and (outdoor mode) the GPS flag are then all set; in a cycle of the
\* initialized filter a flag is set only by a sample of this cycle.
C28_FlagsAccumulate ==
    [][NavCycle =>
         LET outdoor == dispatched' = ALG_INSOUTDOOR IN
         /\ ~inited =>
              /\ mag_updated' = ((mag_updated \/ "mag" \in recv')
                                    /\ MagValid')
              /\ baro_updated' = (baro_updated \/ "baro" \in recv')
              /\ baro_updated' = baro_since_reset'
              /\ gps_updated' = ((gps_updated
                                     \/ ("gps" \in recv' /\ outdoor))
                                    /\ GpsQualifies')
              /\ init_stage = 0 =>
                   ((exit' = "init0")
                      = (/\ mag_updated' /\ baro_updated'
                         /\ (gps_updated' \/ ~outdoor)))
         /\ inited =>
              /\ mag_updated' = ("mag" \in recv' /\ MagValid')
              /\ baro_updated' = ("baro" \in recv')
              /\ gps_updated' = ("gps" \in recv' /\ outdoor
                                    /\ GpsQualifies')
              /\ gps_vel_updated' = ("gpsVel" \in recv' /\ outdoor)]_vars

\* stage 0 has run in outdoor mode in a cycle that received a GPS position
\* but no barometer sample: the barometer flag came from an earlier cycle
C28_Witness ==
    /\ called = "updateAttitudeINSGPS" /\ exit = "init0"
    /\ dispatched = ALG_INSOUTDOOR
    /\ "gps" \in recv /\ "baro" \notin recv
    /\ baro_updated /\ mag_updated /\ gps_updated

\* C29: a navigation filter call with first_run set that gets past the
\* gyro/accel wait clears inited, init_stage and the four flags, returns
\* 0 and predicts, corrects and publishes nothing; and the first
\* navigation filter cycle after a switch of the algorithm (the algorithm
\* dispatched differs from the one dispatched before) makes no correction
\* and writes neither PositionActual nor VelocityActual.
C29_SwitchReinitializes ==
    [][(IterationStep /\ called' = "updateAttitudeINSGPS") =>
         /\ (first_run /\ exit' \notin {"timeout", "navnull"}) =>
              /\ exit' = "reset" /\ ret_val' = 0
              /\ ~inited' /\ init_stage' = 0
              /\ ~mag_updated' /\ ~baro_updated'
              /\ ~gps_updated' /\ ~gps_vel_updated'
              /\ pred_dT' = {} /\ ~corrected' /\ wrote' = {}
         /\ dispatched' # dispatched =>
              /\ ~corrected'
              /\ "PositionActual" \notin wrote'
              /\ "VelocityActual" \notin wrote']_vars

\* the Magnetometer record the cycle read last
LatestMag == IF magSeed # {} THEN CHOOSE m \in magSeed : TRUE ELSE magData

\* C30: in a navigation filter cycle whose latest magnetometer reading has
\* a NaN component, or in which the home field Be is all zero, the
\* magnetometer does not contribute: mag_updated is false after the
\* cycle, MAG_SENSORS is not in the correction mask and the
\* initialization block does not run.
C30_InvalidMagIgnored ==
    [][NavCycle =>
         ((~NotNaN(LatestMag') \/ homeBe = Zero3)
            => /\ ~mag_updated'
               /\ "MAG_SENSORS" \notin sensors'
               /\ exit' \notin {"init0", "init"})]_vars

\* ----------------------------------------------------------------------
\* SpecCF: the task loop in complementary filter mode; a magnetometer
\* event may or may not be pending when polled, the reading points along
\* either horizontal axis or holds a NaN, the home location is set and
\* unset at any point.
\* ----------------------------------------------------------------------
EnvCF ==
    [EnvBase EXCEPT !.opt = {"mag"},
                    !.on = {"gyro", "accel"},
                    !.mag = {Mag(UnitX), Mag(UnitY), MagNaN(UnitY, 1)},
                    !.home = {[Set |-> TRUE, Be |-> UnitX],
                              [Set |-> FALSE, Be |-> UnitX]}]

InitCF == InitEnv(EnvCF)

NextCF ==
    \/ TaskCheck
    \/ TaskDispatch(EnvCF)
    \/ HomeLocationUpdated(EnvCF)

SpecCF == InitCF /\ [][NextCF]_vars

\* ----------------------------------------------------------------------
\* Claims checked under SpecCF
\* ----------------------------------------------------------------------
\* C8: in a complementary filter cycle the magnetic error is computed only
\* when a fresh magnetometer sample was received this cycle, the home
\* location is set and the reading has no NaN component; in every other
\* case the magnetic error of the cycle is zero.
C8_MagErrorOnlyWhenFresh ==
    [][(IterationStep /\ called' = "updateAttitudeComplementary"
          /\ exit' = "ok")
       => /\ mag_computed' => (mag_fresh' /\ homeSet /\ NotNaN(magData'))
          /\ ~mag_computed' => mag_err' = Zero3]_vars

\* ----------------------------------------------------------------------
\* SpecAcc: the task loop in complementary filter mode with
\* ZeroDuringArming set; FlightStatus.Armed is ARMING or not in any cycle,
\* every sensor delivers, the gyro samples take two values and GyrosBias
\* starts at zero or not.
\* ----------------------------------------------------------------------
EnvAcc ==
    [EnvBase EXCEPT !.cap = MaxSamples,
                    !.gyro = {<<1, 1, 1>>, <<1, 2, 0>>},
                    !.biasset = BiasSettingVals,
                    !.attset = {[ZeroDuringArming |-> TRUE,
                                 BiasCorrectGyro |-> TRUE]}]

InitAcc == InitEnv(EnvAcc)

NextAcc ==
    \/ TaskCheck
    \/ TaskDispatch(EnvAcc)

SpecAcc == InitAcc /\ [][NextAcc]_vars

\* ----------------------------------------------------------------------
\* Claims checked under SpecAcc
\* ----------------------------------------------------------------------
\* a cycle that calls accumulate_gyro_compute: the filter leaves CF_ARMING
ComputeCalled ==
    /\ IterationStep /\ called' = "updateAttitudeComplementary"
    /\ exit' = "ok"
    /\ complimentary_filter_status = CF_ARMING
    /\ complimentary_filter_status' = CF_NORMAL

\* C9: accumulate_gyro_compute writes GyrosBias only if the accumulating
\* flag is set and more than 100 samples have been accumulated since the
\* accumulator was last zeroed; otherwise it leaves the published bias
\* unchanged (and no other cycle publishes a mean).
C9_NoMeanBefore101 ==
    [][/\ (IterationStep /\ bias_computed' # {})
          => /\ ComputeCalled
             /\ gyro_bias_estimation.accumulating_gyro
             /\ acc_window.n > 100
       /\ (ComputeCalled
             /\ ~(gyro_bias_estimation.accumulating_gyro
                   /\ acc_window.n > 100))
          => (bias_computed' = {} /\ gyrosBias' = gyrosBias)]_vars

\* accumulate_gyro_compute was called with exactly 100 samples accumulated
\* and published nothing
C9_Witness ==
    /\ pc = "check" /\ exit = "ok"
    /\ complimentary_filter_status = CF_NORMAL
    /\ ~gyro_bias_estimation.accumulating_gyro
    /\ acc_window.n = 100
    /\ bias_computed = {} /\ "GyrosBias" \in wrote

\* a window of exactly 101 samples, all equal to one value
ConstantWindow ==
    /\ ComputeCalled
    /\ gyro_bias_estimation.accumulating_gyro
    /\ acc_window.n = 101
    /\ Cardinality(acc_window.vs) = 1

\* the accumulator after a mean has been published
AccumulatorReset ==
    /\ gyro_bias_estimation'.accumulated_gyro_samples = 0
    /\ gyro_bias_estimation'.accumulated_gyro = Zero3
    /\ ~gyro_bias_estimation'.accumulating_gyro

\* C10 (as stated): after the accumulator has been zeroed and fed exactly
\* 101 samples each equal to v, the bias accumulate_gyro_compute publishes
\* equals v on every axis, and afterwards the sample count is 0, the sums
\* are 0 and the accumulating flag is false.
C10_MeanIsSample ==
    [][ConstantWindow
       => /\ bias_computed' = acc_window.vs
          /\ AccumulatorReset]_vars

\* C10 (amended): after the accumulator has been zeroed and fed exactly
\* 101 samples each equal to v while the GyrosBias record held b, the bias
\* accumulate_gyro_compute publishes equals v + b on every axis (v only
\* for b = 0), and afterwards the sample count is 0, the sums are 0 and
\* the accumulating flag is false.
C10_MeanIsSamplePlusBias ==
    [][(ConstantWindow /\ Cardinality(acc_window.bs) = 1)
       => /\ \A v \in acc_window.vs : \A b \in acc_window.bs :
                bias_computed' = {Add3(v, b)}
          /\ AccumulatorReset]_vars

\* a mean has been published from 101 equal samples taken while GyrosBias
\* was not zero
C10_Witness ==
    /\ pc = "check" /\ exit = "ok"
    /\ complimentary_filter_status = CF_NORMAL
    /\ bias_window = [n |-> 101, vs |-> {<<1, 1, 1>>}, bs |-> {<<1, 1, 1>>}]
    /\ bias_computed = {<<2, 2, 2>>} /\ gyrosBias = <<2, 2, 2>>
    /\ gyro_bias_estimation.accumulated_gyro_samples = 0
    /\ gyro_bias_estimation.accumulated_gyro = Zero3
    /\ ~gyro_bias_estimation.accumulating_gyro
    /\ arming_count = 0

\* a cycle of the status chain in which the filter leaves CF_ARMING
LeavesArming ==
    /\ IterationStep /\ called' = "updateAttitudeComplementary"
    /\ ~first_run
    /\ complimentary_filter_status = CF_ARMING
    /\ complimentary_filter_status' # CF_ARMING

\* C27: in the cycle in which the status leaves ARMING the accumulator
\* holds the samples taken since ARMING was entered, one for each of the
\* arming_count cycles, the accumulator having been zeroed on entry;
\* accumulate_gyro_compute decides on that window (it publishes its mean
\* exactly when it holds more than 100 samples); after the cycle the
\* status is NORMAL, the accumulating flag false and arming_count 0,
\* published or not; the gyro sample of the cycle is not accumulated: the
\* accumulator is zero after a publication and as it was otherwise.
C27_LeavingArming ==
    [][LeavesArming =>
         LET acc == gyro_bias_estimation IN
         /\ complimentary_filter_status' = CF_NORMAL
         /\ ~gyro_bias_estimation'.accumulating_gyro
         /\ arming_count' = 0
         /\ acc.accumulating_gyro
         /\ acc.accumulated_gyro_samples = arming_count
         /\ acc_window.n = arming_count
         /\ (bias_computed' # {}) = (acc.accumulated_gyro_samples > 100)
         /\ bias_computed' # {} =>
               /\ bias_computed' = {MeanGyro(acc)}
               /\ bias_window' = acc_window
         /\ gyro_bias_estimation'.accumulated_gyro_samples =
               IF acc.accumulated_gyro_samples > 100 THEN 0
               ELSE acc.accumulated_gyro_samples
         /\ gyro_bias_estimation'.accumulated_gyro =
               IF acc.accumulated_gyro_samples > 100 THEN Zero3
               ELSE acc.accumulated_gyro]_vars

\* the filter has left ARMING after two cycles and published nothing: the
\* two samples are still in the accumulator
C27_Witness ==
    /\ pc = "check" /\ exit = "ok"
    /\ complimentary_filter_status = CF_NORMAL
    /\ arming_count = 0
    /\ ~gyro_bias_estimation.accumulating_gyro
    /\ gyro_bias_estimation.accumulated_gyro_samples = 2
    /\ bias_computed = {}

\* ----------------------------------------------------------------------
\* SpecBias: the task loop in indoor navigation filter mode with every
\* sensor delivering; InertialSensorSettings is pushed between cycles and
\* while a cycle computes, the correction moves the filter's bias
\* estimate, BiasCorrectGyro is set or not.
\* ----------------------------------------------------------------------
EnvBias ==
    [EnvBase EXCEPT !.algs = {ALG_INSINDOOR},
                    !.biasset = BiasSettingVals,
                    !.drift = {Zero3, <<MICRORAD_PER_DEG, 0, 0>>,
                               <<0 - MICRORAD_PER_DEG, 0, 0>>},
                    !.midpush = {{}, {<<1, 1, 1>>}},
                    !.attset = {[ZeroDuringArming |-> FALSE,
                                 BiasCorrectGyro |-> TRUE],
                                [ZeroDuringArming |-> FALSE,
                                 BiasCorrectGyro |-> FALSE]}]

InitBias == InitEnv(EnvBias)

NextBias ==
    \/ TaskCheck
    \/ TaskDispatch(EnvBias)
    \/ InertialSensorSettingsUpdated(EnvBias)

SpecBias == InitBias /\ [][NextBias]_vars

\* ----------------------------------------------------------------------
\* Claims checked under SpecBias
\* ----------------------------------------------------------------------
\* an initialized navigation filter cycle
RunCycle ==
    IterationStep /\ called' = "updateAttitudeINSGPS" /\ exit' = "run"

\* C11 (as stated): in the navigation filter cycle that consumes
\* gyroBiasSettingsUpdated and overwrites the filter's gyro bias from the
\* configured value, GyrosBias is not overwritten from the filter's own
\* estimate.
C11_OverrideNotClobbered ==
    [][(RunCycle /\ gyroBiasSettingsUpdated)
          => "GyrosBias" \notin wrote']_vars

\* C11 (amended): GyrosBias is left alone by a navigation filter cycle only
\* if a configuration push arrives while the cycle computes, after the flag
\* was consumed (the flag is then still set when the cycle ends, for the
\* next cycle to consume) or if BiasCorrectGyro is off; the cycle that
\* consumes the flag with no further push clears the flag and, with
\* BiasCorrectGyro on, overwrites GyrosBias from the filter's estimate,
\* which it has just reset to the configured value.
C11_OverridePublishedUnlessRaced ==
    [][RunCycle
       => /\ gyroBiasSettingsUpdated'
             => ("GyrosBias" \notin wrote' /\ gyrosBias' \in BiasSettingVals)
          /\ (~gyroBiasSettingsUpdated' /\ BiasCorrectGyro)
             => /\ "GyrosBias" \in wrote'
                /\ gyrosBias' = Rad2Deg3(nav_gyro_bias')
                /\ gyroBiasSettingsUpdated
                     => \E d \in EnvBias.drift :
                          nav_gyro_bias' = Add3(Deg2Rad3(gyrosBias), d)
          /\ (~gyroBiasSettingsUpdated' /\ ~BiasCorrectGyro)
             => ("GyrosBias" \notin wrote' /\ gyrosBias' = gyrosBias)]_vars

\* a cycle consumed a pushed bias of (1,1,1), the correction moved the
\* estimate and the estimate (2,1,1) was published over it
C11_Witness ==
    /\ pc = "check" /\ exit = "run" /\ ~gyroBiasSettingsUpdated
    /\ BiasCorrectGyro /\ "GyrosBias" \in wrote
    /\ gyrosBias = <<2, 1, 1>>
    /\ nav_gyro_bias = Add3(Deg2Rad3(<<1, 1, 1>>), <<MICRORAD_PER_DEG, 0, 0>>)

\* ----------------------------------------------------------------------
\* SpecGPS: the task loop in outdoor navigation filter mode; a GPS
\* position event may or may not be pending, the fix has 6 or 7 satellites
\* and a PDOP of 4.0 or 4.1, the home location is set and unset at any
\* point, INSGPSGetNav returns the filter state or NULL.
\* ----------------------------------------------------------------------
EnvGPS ==
    [EnvBase EXCEPT !.algs = {ALG_INSOUTDOOR},
                    !.opt = {"gps"},
                    !.on = {"gyro", "accel", "mag", "baro", "gpsVel"},
                    !.sats = SatVals,
                    !.pdop = {GPS_MAX_PDOP, GPS_MAX_PDOP + 1},
                    !.navnull = BOOLEAN,
                    !.home = {[Set |-> TRUE, Be |-> UnitX],
                              [Set |-> FALSE, Be |-> UnitX]}]

InitGPS == InitEnv(EnvGPS)

NextGPS ==
    \/ TaskCheck
    \/ TaskDispatch(EnvGPS)
    \/ HomeLocationUpdated(EnvGPS)

SpecGPS == InitGPS /\ [][NextGPS]_vars

\* ----------------------------------------------------------------------
\* Claims checked under SpecGPS
\* ----------------------------------------------------------------------
\* an outdoor navigation filter cycle that reached the sensor polls
OutdoorCycle ==
    /\ IterationStep /\ called' = "updateAttitudeINSGPS"
    /\ dispatched' = ALG_INSOUTDOOR
    /\ exit' \in {"stall", "init0", "init", "run"}

\* the GPS position record of the cycle contributes
GpsUsed ==
    \/ gps_updated'
    \/ "POS_SENSORS" \in sensors'
    \/ "NEDPosition" \in wrote'

\* C12: in outdoor mode a GPS position sample contributes (gps_updated,
\* POS_SENSORS in the mask, NEDPosition written) only if its satellite
\* count is at least 7, its PDOP at most 4.0 and the home location is set;
\* a pending sample with 6 satellites is taken from the queue and ignored.
C12_GpsMinimumRequirement ==
    [][OutdoorCycle
       => /\ GpsUsed => (gps_sats' >= 7 /\ gps_pdop' <= 40 /\ homeSet)
          /\ ("gps" \in recv' /\ gps_sats' = 6) => ~GpsUsed]_vars

\* an initialized outdoor cycle took a GPS position event with 6
\* satellites from the queue and corrected without it
C12_Witness ==
    /\ pc = "check" /\ called = "updateAttitudeINSGPS" /\ exit = "run"
    /\ dispatched = ALG_INSOUTDOOR /\ inited
    /\ "gps" \in recv /\ gps_sats = 6 /\ gps_pdop = 40 /\ homeSet
    /\ ~gps_updated /\ "POS_SENSORS" \notin sensors
    /\ "NEDPosition" \notin wrote /\ "MAG_SENSORS" \in sensors

\* C14: when INSGPSGetNav() returns NULL, updateAttitudeINSGPS returns -1
\* at once: no queue is read, the alarm, inited, init_stage, the four
\* sensor-updated flags and every published record are unchanged.
C14_NavNullChangesNothing ==
    [][(IterationStep /\ called' = "updateAttitudeINSGPS"
          /\ exit' = "navnull")
       => /\ ret_val' = 0 - 1
          /\ recv' = {} /\ wrote' = {}
          /\ alarm' = alarm
          /\ gyrosBias' = gyrosBias
          /\ inited' = inited /\ init_stage' = init_stage
          /\ mag_updated' = mag_updated /\ baro_updated' = baro_updated
          /\ gps_updated' = gps_updated
          /\ gps_vel_updated' = gps_vel_updated
          /\ first_run' = first_run]_vars

\* a call on an initialized filter with the alarm clear found no filter
\* state and returned -1
C14_Witness ==
    /\ pc = "check" /\ called = "updateAttitudeINSGPS"
    /\ exit = "navnull" /\ ret_val = 0 - 1
    /\ inited /\ alarm = ALARM_OK /\ recv = {} /\ wrote = {}

\* ----------------------------------------------------------------------
\* SpecWait: both filters, the gyro, accel and mag queues may or may not
\* deliver, on a build with a tick period of 1 ms or of 2 ms.
\* ----------------------------------------------------------------------
EnvWait ==
    [EnvBase EXCEPT !.algs = {ALG_COMPLEMENTARY, ALG_INSINDOOR,
                              ALG_INSOUTDOOR},
                    !.opt = {"gyro", "accel", "mag"},
                    !.on = {"baro", "gps", "gpsVel"},
                    !.tickms = {1, 2}]

InitWait == InitEnv(EnvWait)

NextWait ==
    \/ TaskCheck
    \/ TaskDispatch(EnvWait)

SpecWait == InitWait /\ [][NextWait]_vars

\* ----------------------------------------------------------------------
\* Claims checked under SpecWait
\* ----------------------------------------------------------------------
\* a cycle of one of the two filters
FilterCycle ==
    IterationStep /\ called' \in UpdateFns

\* C16 (as stated): in every cycle of either filter the only queue receive
\* with a non-zero timeout is the one on the gyro queue; the accel, mag,
\* baro, GPS position and GPS velocity queues are read with zero timeout.
C16_OnlyGyroBlocks ==
    [][FilterCycle
       => \A w \in waits' : w[2] # 0 => w[1] = "gyro"]_vars

\* C16 (amended): every cycle waits on the gyro queue for 10 ms; the accel
\* queue, tried once gyro delivered, is read with a 1 ms timeout (one tick
\* on a 1 ms build, zero on a coarser one); baro, GPS position and GPS
\* velocity are always read with zero timeout; mag is read with zero
\* timeout except in initialization stage 0 of the navigation filter,
\* which waits 100 ms on the mag queue.
C16_BlockingReceives ==
    [][FilterCycle
       => /\ <<"gyro", 10 \div portTICK_RATE_MS>> \in waits'
          /\ \A w \in waits' :
               \/ w = <<"gyro", 10 \div portTICK_RATE_MS>>
               \/ w = <<"accel", 1 \div portTICK_RATE_MS>>
               \/ w[1] \in {"mag", "baro", "gps", "gpsVel"} /\ w[2] = 0
               \/ exit' = "init0" /\ w = <<"mag", 100 \div portTICK_RATE_MS>>
          /\ exit' = "init0"
               => <<"mag", 100 \div portTICK_RATE_MS>> \in waits'
          /\ "gyro" \in recv' <=> (\E w \in waits' : w[1] = "accel")]_vars

\* stage 0 of the navigation filter has waited 100 ticks on the mag queue
\* after a one-tick wait on the accel queue
C16_Witness ==
    /\ pc = "check" /\ called = "updateAttitudeINSGPS" /\ exit = "init0"
    /\ portTICK_RATE_MS = 1
    /\ <<"accel", 1>> \in waits /\ <<"mag", 100>> \in waits



\* ----------------------------------------------------------------------
\* SpecCorr: the navigation filter, indoor or outdoor; the mag, baro, GPS
\* position and GPS velocity queues may or may not deliver, GPS fixes come
\* with 6 or 7 satellites, magnetometer readings may hold a NaN.
\* ----------------------------------------------------------------------
EnvCorr ==
    [EnvBase EXCEPT !.algs = {ALG_INSINDOOR, ALG_INSOUTDOOR},
                    !.opt = {"mag", "baro", "gps", "gpsVel"},
                    !.on = {"gyro", "accel"},
                    !.mag = {Mag(UnitX), MagNaN(UnitX, 2)},
                    !.sats = SatVals]

InitCorr == InitEnv(EnvCorr)

NextCorr ==
    \/ TaskCheck
    \/ TaskDispatch(EnvCorr)

SpecCorr == InitCorr /\ [][NextCorr]_vars

\* ----------------------------------------------------------------------
\* Claims checked under SpecCorr
\* ----------------------------------------------------------------------
\* a navigation filter cycle that started initialized
InitializedCycle ==
    /\ IterationStep /\ called' = "updateAttitudeINSGPS"
    /\ inited /\ exit' = "run"

\* no mag, baro or GPS velocity sample arrived and no qualifying GPS
\* position sample did
NothingArrived ==
    /\ recv' \cap {"mag", "baro", "gpsVel"} = {}
    /\ \/ "gps" \notin recv'
       \/ gps_sats' < 7 \/ gps_pdop' > 40 \/ ~homeSet

\* C17: in an initialized navigation filter cycle INSCorrection is invoked
\* exactly when the sensor availability mask is non-zero; in an outdoor
\* cycle in which no mag, baro, qualifying GPS position or GPS velocity
\* sample arrived the mask is zero and no correction is applied.
C17_CorrectionIffMask ==
    [][InitializedCycle
       => /\ corrected' <=> (sensors' # {})
          /\ (dispatched' = ALG_INSOUTDOOR /\ NothingArrived)
               => (~corrected' /\ sensors' = {})]_vars

\* an initialized outdoor cycle that only predicted
C17_Witness ==
    /\ pc = "check" /\ called = "updateAttitudeINSGPS" /\ exit = "run"
    /\ dispatched = ALG_INSOUTDOOR
    /\ recv = {"gyro", "accel"} /\ sensors = {} /\ ~corrected



\* ----------------------------------------------------------------------
\* SpecQuat: the integration step applied to a quaternion and to rates
\* that may be unit or not, finite or not.
\* ----------------------------------------------------------------------
AxisRates == {Fin(0), Fin(FScale), Fin(0 - FScale), PInf}

EnvQuat ==
    [EnvBase EXCEPT
       !.quats = {QIdentity,
                  <<Fin(6000), Fin(8000), Fin(0), Fin(0)>>,
                  <<Fin(5000), Fin(5000), Fin(5000), Fin(5000)>>,
                  <<Fin(0 - FScale), Fin(0), Fin(0), Fin(0)>>,
                  <<Fin(0), Fin(0), Fin(0), Fin(0)>>,
                  <<Fin(5), Fin(0), Fin(0), Fin(0)>>,
                  <<NaN, Fin(0), Fin(0), Fin(0)>>},
       !.rates = AxisRates \X AxisRates \X AxisRates]

InitQuat == InitEnv(EnvQuat)

NextQuat == IntegrateQuaternion

SpecQuat == InitQuat /\ [][NextQuat]_vars

\* ----------------------------------------------------------------------
\* Claims checked under SpecQuat
\* ----------------------------------------------------------------------
\* x >= 0 on floats: false for NaN
NonNegative(a) == ~IsNaN(a) /\ Ord(a) >= 0
\* the norm is 1 within rounding
UnitNorm(q) ==
    /\ \A i \in 1..4 : q[i].k = "fin"
    /\ Abs(QMag(q).v - FScale) <= 2

\* C18: every quaternion published by the integration step has scalar
\* component q1 >= 0.
C18_ScalarNonNegative ==
    quat_out # <<>> => NonNegative(quat_out[1])

\* C19: if the norm of the integrated quaternion is below 1e-3 or NaN the
\* published quaternion is the identity, otherwise it is the integrated one
\* divided by its norm; every published quaternion has unit norm and no NaN
\* component.
C19_UnitNormNoNaN ==
    quat_out # <<>>
    => /\ (IsNaN(qmag) \/ FLess(qmag, Fin(10))) => quat_out = QIdentity
       /\ ~(IsNaN(qmag) \/ FLess(qmag, Fin(10)))
            => \A i \in 1..4 :
                 quat_out[i] = FQuot(SignFlip(Integrated(quat_in,
                                                         quat_rate))[i], qmag)
       /\ \A i \in 1..4 : ~IsNaN(quat_out[i])
       /\ UnitNorm(quat_out)

\* ----------------------------------------------------------------------
\* SpecNED: fixes at and near the home location converted to NED, for home
\* locations at two latitudes and two altitudes that change at any point.
\* ----------------------------------------------------------------------
EnvNED ==
    [EnvBase EXCEPT
       !.homella = [Latitude : {0, 600000000}, Longitude : {0},
                    Altitude : {0, 100}],
       !.fixes = [dLat : {0, 3}, dLon : {0, 5}, dAlt : {0, 2},
                  Geoid : {0 - 30, 0, 30}]]

InitNED == InitEnv(EnvNED)

NextNED ==
    \/ ConvertFix(EnvNED)
    \/ HomeLocationUpdated(EnvNED)

SpecNED == InitNED /\ [][NextNED]_vars

\* ----------------------------------------------------------------------
\* Claims checked under SpecNED
\* ----------------------------------------------------------------------
\* a conversion of a fix whose latitude, longitude and altitude equal the
\* home location's
HomeFixConverted ==
    /\ homeLocation' = homeLocation /\ T' = T /\ NED' # <<>>
    /\ gpsPosition'.Latitude = homeLocation.Latitude
    /\ gpsPosition'.Longitude = homeLocation.Longitude
    /\ gpsPosition'.Altitude = homeLocation.Altitude
    /\ <<gpsPosition, NED>>' # <<gpsPosition, NED>>

\* C20: for any home location and any GPS fix whose latitude, longitude and
\* altitude equal the home location's, getNED returns North = 0, East = 0
\* and Down = 0, for every geoid separation carried by the fix.
C20_HomeFixIsOrigin ==
    [][HomeFixConverted => NED' = <<0, 0, 0>>]_vars



\* ----------------------------------------------------------------------
\* SpecSwitch: the selection changes between the complementary filter and
\* the indoor navigation filter at any point; GyrosBias starts at (1,1,1)
\* and the accelerometer error moves it.
\* ----------------------------------------------------------------------
EnvSwitch ==
    [EnvBase EXCEPT !.algs = {ALG_COMPLEMENTARY, ALG_INSINDOOR},
                    !.aerr = {Zero3, <<1, 0, 0>>},
                    !.biasset = {<<1, 1, 1>>}]

InitSwitch == InitEnv(EnvSwitch)

NextSwitch ==
    \/ TaskCheck
    \/ TaskDispatch(EnvSwitch)
    \/ RevoSettingsUpdated(EnvSwitch)

SpecSwitch == InitSwitch /\ [][NextSwitch]_vars

\* ----------------------------------------------------------------------
\* Claims checked under SpecSwitch
\* ----------------------------------------------------------------------
\* an iteration that called a filter with first_run set
FirstRunCycle ==
    IterationStep /\ called_first_run' /\ called' \in UpdateFns

\* C21: a first-run cycle of either filter does not write GyrosBias, so a
\* switch complementary -> navigation -> complementary with only first-run
\* cycles in between leaves every axis of GyrosBias as it was.
C21_FirstRunKeepsGyrosBias ==
    [][FirstRunCycle
       => (gyrosBias' = gyrosBias /\ "GyrosBias" \notin wrote')]_vars

\* the complementary filter moved GyrosBias to (0,1,1), then the navigation
\* filter and the complementary filter each ran a first-run cycle
C21_Witness ==
    /\ pc = "check"
    /\ fr_chain = <<"updateAttitudeINSGPS", "updateAttitudeComplementary">>
    /\ exit = "seed" /\ ret_val = 0
    /\ gyrosBias = <<0, 1, 1>>



\* ----------------------------------------------------------------------
\* SpecPass: the complementary filter; every sample but the accel one may
\* or may not be pending, AttitudeActual may be read-only, the home
\* location is set and unset at any point.
\* ----------------------------------------------------------------------
EnvPass ==
    [EnvBase EXCEPT !.opt = {"gyro", "mag", "baro", "gps", "gpsVel"},
                    !.on = {"accel"},
                    !.readonly = BOOLEAN,
                    !.home = {[Set |-> TRUE, Be |-> UnitX],
                              [Set |-> FALSE, Be |-> UnitX]}]

InitPass == InitEnv(EnvPass)

NextPass ==
    \/ TaskCheck
    \/ TaskDispatch(EnvPass)
    \/ HomeLocationUpdated(EnvPass)

SpecPass == InitPass /\ [][NextPass]_vars

\* ----------------------------------------------------------------------
\* Claims checked under SpecPass
\* ----------------------------------------------------------------------
\* an iteration that called the complementary filter
ComplementaryCycle ==
    IterationStep /\ called' = "updateAttitudeComplementary"

\* C22: a complementary filter cycle that completes the attitude update
\* writes NEDPosition and PositionActual exactly when a GPS position sample
\* was pending and the home location is set, and VelocityActual exactly
\* when a GPS velocity sample was pending; both GPS queues are read.  A
\* cycle that fails or is a first-run cycle reads neither GPS queue and
\* writes none of the three records.
C22_GpsPassthrough ==
    [][ComplementaryCycle
       => IF exit' = "ok"
          THEN /\ ~called_first_run' /\ ret_val' = 0
               /\ <<"gps", 0>> \in waits' /\ <<"gpsVel", 0>> \in waits'
               /\ "NEDPosition" \in wrote' <=> ("gps" \in recv' /\ homeSet)
               /\ "PositionActual" \in wrote'
                     <=> ("gps" \in recv' /\ homeSet)
               /\ "VelocityActual" \in wrote' <=> "gpsVel" \in recv'
          ELSE /\ called_first_run' \/ ret_val' # 0
               /\ \A w \in waits' : w[1] \notin {"gps", "gpsVel"}
               /\ wrote' \cap {"NEDPosition", "PositionActual",
                               "VelocityActual"} = {}]_vars

\* a completed cycle consumed a GPS position sample with the home location
\* unset and wrote only the velocity
C22_Witness ==
    /\ pc = "check" /\ called = "updateAttitudeComplementary"
    /\ exit = "ok" /\ ~homeSet
    /\ "gps" \in recv /\ "gpsVel" \in recv
    /\ "NEDPosition" \notin wrote /\ "PositionActual" \notin wrote
    /\ "VelocityActual" \in wrote

\* ----------------------------------------------------------------------
\* PIOS_COM: the non-blocking send on a COM port.  The tx FIFO is a
\* circular queue that one writer (the sender that holds the send mutex)
\* fills and the driver's tx callback drains.
\* ----------------------------------------------------------------------
\* the size of the tx FIFO given to PIOS_COM_Init
tx_buffer_len == 3

Min(a, b) == IF a < b THEN a ELSE b

\* circ_queue_write_pos: the total number of elements that can be written
circ_queue_write_pos(q) == tx_buffer_len - Len(q)

\* circ_queue_write_data: writes as much of buf as fits, gives the queue
circ_queue_write_data(q, buf) ==
    q \o SubSeq(buf, 1, Min(Len(buf), circ_queue_write_pos(q)))

\* circ_queue_read_data: takes up to n elements from the head of the queue
circ_queue_read_data(q, n) == SubSeq(q, Min(n, Len(q)) + 1, Len(q))

\* SendBufferNonBlockingImpl without the all_or_nothing check
SendBufferNonBlockingImpl_Partial(valid, mtx, available, q, buffer, all_or_nothing, drained) ==
    IF ~valid THEN [ret |-> 0 - 1, tx |-> q, mtx |-> mtx]
    ELSE IF mtx # "free" THEN [ret |-> 0 - 3, tx |-> q, mtx |-> mtx]
    ELSE IF ~available
    THEN [ret |-> Len(buffer), tx |-> <<>>, mtx |-> "free"]
    ELSE LET q1 == circ_queue_read_data(q, drained)
             q2 == circ_queue_write_data(q1, buffer)
         IN  [ret |-> Len(q2) - Len(q1), tx |-> q2, mtx |-> "free"]

\* SendBufferNonBlockingImpl on a port with a tx FIFO: the return value,
\* the tx FIFO and the holder of the send mutex when it returns.  mtx is
\* the holder of the send mutex at the call, available the answer of the
\* driver's available callback, drained the number of bytes the tx
\* callback takes out of the FIFO between the check of the free space and
\* the write.
SendBufferNonBlockingImpl(valid, mtx, available, q, buffer, all_or_nothing, drained) ==
    IF ~valid THEN [ret |-> 0 - 1, tx |-> q, mtx |-> mtx]
    \* PIOS_Mutex_Lock with a timeout of 0
    ELSE IF mtx # "free" THEN [ret |-> 0 - 3, tx |-> q, mtx |-> mtx]
    \* the device is down: circ_queue_clear, unlock, act as a data sink
    ELSE IF ~available
    THEN [ret |-> Len(buffer), tx |-> <<>>, mtx |-> "free"]
    ELSE IF all_or_nothing /\ Len(buffer) > circ_queue_write_pos(q)
    THEN [ret |-> 0 - 2, tx |-> q, mtx |-> "free"]
    ELSE LET q1 == circ_queue_read_data(q, drained)
             q2 == circ_queue_write_data(q1, buffer)
         IN  [ret |-> Len(q2) - Len(q1), tx |-> q2, mtx |-> "free"]

\* the buffers handed to the send functions
ComBuffers == {<<>>, <<1>>, <<2, 1>>, <<1, 2, 2>>, <<2, 2, 1, 1>>}

PIOS_COM_SendBufferNonBlocking ==
    /\ \E buffer \in ComBuffers, available \in BOOLEAN,
          drained \in 0 .. Len(tx) :
          LET r == SendBufferNonBlockingImpl(com_valid, sendbuffer_mtx,
                                             available, tx, buffer, TRUE,
                                             drained)
          IN  /\ tx' = r.tx
              /\ sendbuffer_mtx' = r.mtx
              /\ com_ret' = r.ret
              /\ com_call' = [called |-> TRUE, available |-> available,
                              buffer |-> buffer, tx |-> tx,
                              sendbuffer_mtx |-> sendbuffer_mtx,
                              drained |-> drained]
    /\ UNCHANGED <<taskVars, settingVars, gyrosBias, alarm, cfVars,
                   gyro_bias_estimation, insVars, envVars, obsVars,
                   quatVars, nedVars, com_valid,
                   pushed, sysVars>>

\* the driver takes up to buf_len bytes out of the tx FIFO
PIOS_COM_TxOutCallback ==
    /\ com_valid
    /\ tx # <<>>
    /\ \E buf_len \in 1 .. 2 : tx' = circ_queue_read_data(tx, buf_len)
    /\ com_call' = NoCall
    /\ UNCHANGED <<taskVars, settingVars, gyrosBias, alarm, cfVars,
                   gyro_bias_estimation, insVars, envVars, obsVars,
                   quatVars, nedVars, com_valid, sendbuffer_mtx, com_ret,
                   pushed, sysVars>>

\* another thread, in PIOS_COM_SendBuffer, takes the send mutex
OtherThreadLock ==
    /\ com_valid
    /\ sendbuffer_mtx = "free"
    /\ sendbuffer_mtx' = "other"
    /\ com_call' = NoCall
    /\ UNCHANGED <<taskVars, settingVars, gyrosBias, alarm, cfVars,
                   gyro_bias_estimation, insVars, envVars, obsVars,
                   quatVars, nedVars, com_valid, tx, com_ret,
                   pushed, sysVars>>

\* the other thread writes what fits of its buffer and gives the mutex back
OtherThreadSend ==
    /\ sendbuffer_mtx = "other"
    /\ \E buffer \in ComBuffers :
          LET r == SendBufferNonBlockingImpl(com_valid, "free", TRUE, tx,
                                             buffer, FALSE, 0)
          IN  tx' = r.tx /\ sendbuffer_mtx' = r.mtx
    /\ com_call' = NoCall
    /\ UNCHANGED <<taskVars, settingVars, gyrosBias, alarm, cfVars,
                   gyro_bias_estimation, insVars, envVars, obsVars,
                   quatVars, nedVars, com_valid, com_ret,
                   pushed, sysVars>>

\* SpecCom: a port that is valid or not, sends of buffers of 0 to 4 bytes
\* into a FIFO of tx_buffer_len bytes, with the device up or down, while
\* the driver drains the FIFO and another thread sends on the same port.
EnvCom == [EnvBase EXCEPT !.ports = BOOLEAN]

InitCom == InitEnv(EnvCom)

NextCom ==
    \/ PIOS_COM_SendBufferNonBlocking
    \/ PIOS_COM_TxOutCallback
    \/ OtherThreadLock
    \/ OtherThreadSend

SpecCom == InitCom /\ [][NextCom]_vars

\* C23: PIOS_COM_SendBufferNonBlocking returns -1 on an invalid port; on
\* a valid port whose device is available it either queues the whole
\* buffer behind what the FIFO still holds and returns len, or queues
\* nothing and returns -2 (the free space was below len) or -3 (another
\* thread held the send mutex); whenever it returns a negative value the
\* tx FIFO is as it was at the call and the send mutex is held by whoever
\* held it at the call, never by the caller.
C23_AllOrNothing ==
    com_call.called =>
      /\ ~com_valid => com_ret = 0 - 1
      /\ (com_valid /\ com_call.available) =>
            \/ /\ com_ret = Len(com_call.buffer)
               /\ com_call.sendbuffer_mtx = "free"
               /\ tx = SubSeq(com_call.tx, com_call.drained + 1,
                              Len(com_call.tx)) \o com_call.buffer
            \/ /\ com_ret = 0 - 2
               /\ com_call.sendbuffer_mtx = "free"
               /\ Len(com_call.buffer) > tx_buffer_len - Len(com_call.tx)
            \/ /\ com_ret = 0 - 3
               /\ com_call.sendbuffer_mtx = "other"
      /\ com_ret < 0 =>
            /\ tx = com_call.tx
            /\ sendbuffer_mtx = com_call.sendbuffer_mtx
            /\ sendbuffer_mtx \in {"free", "other"}

\* a send of two bytes or more to an available device was refused with -2
\* although the FIFO had room for a part of it
C23_Witness ==
    /\ com_call.called /\ com_valid /\ com_call.available
    /\ com_ret = 0 - 2
    /\ Len(com_call.tx) < tx_buffer_len
    /\ tx = com_call.tx /\ sendbuffer_mtx = "free"

\* ----------------------------------------------------------------------
\* C24: after a first-run reset the navigation filter is initialized at
\* the end of the 10th initialization cycle (stage 0 and the prediction
\* stages 1 to 9): once init_stage, the number of initialization cycles
\* since the reset, has reached 10 the filter is initialized, and no
\* prediction-only initialization cycle starts at stage 10.
\* ----------------------------------------------------------------------
C24_InitializedAfterTenCycles ==
    /\ init_stage >= 10 => inited
    /\ exit = "init" => init_stage <= 10

\* ----------------------------------------------------------------------
\* SpecPred: the indoor navigation filter with cycles that come 0.5 ms,
\* 5 ms or 50 ms after the previous one; gyro samples may time out.
\* ----------------------------------------------------------------------
EnvPred ==
    [EnvBase EXCEPT !.algs = {ALG_INSINDOOR},
                    !.opt = {"gyro", "baro"},
                    !.on = {"accel", "mag"},
                    !.elapsed = {500, 5000, 50000}]

InitPred == InitEnv(EnvPred)

NextPred ==
    \/ TaskCheck
    \/ TaskDispatch(EnvPred)

SpecPred == InitPred /\ [][NextPred]_vars

\* C25: every INSStatePrediction call of the navigation filter, the ones
\* of the initialization stages included, gets a step dT with
\* 0.001 s <= dT <= 0.01 s (pred_dT is in microseconds).
C25_PredictionStepClamped ==
    \A dt \in pred_dT : 1000 <= dt /\ dt <= 10000

\* ----------------------------------------------------------------------
\* SpecStatus: the complementary filter from a tick count of 1000 on, the
\* tick count advancing between iterations, ZeroDuringArming set, the
\* vehicle arming or not, gyro samples that may time out, the algorithm
\* switched to the indoor navigation filter and back between iterations.
\* ----------------------------------------------------------------------
EnvStatus ==
    [EnvBase EXCEPT !.algs = {ALG_COMPLEMENTARY, ALG_INSINDOOR},
                    !.opt = {"gyro"},
                    !.on = {"accel", "mag", "baro", "gps", "gpsVel"},
                    !.tick0 = {1000},
                    !.attset = {[ZeroDuringArming |-> TRUE,
                                 BiasCorrectGyro |-> TRUE]}]

InitStatus == InitEnv(EnvStatus)

\* a RevoSettings update that lands before the loop compares
\* last_algorithm with the selection
SwitchBetweenIterations(E) == pc = "check" /\ RevoSettingsUpdated(E)

NextStatus ==
    \/ TaskCheck
    \/ TaskDispatch(EnvStatus)
    \/ SwitchBetweenIterations(EnvStatus)
    \/ Tick

SpecStatus == InitStatus /\ [][NextStatus]_vars

\* the status changes the chain of updateAttitudeComplementary may make
StatusEdges ==
    {<<CF_POWERON, CF_INITIALIZING>>, <<CF_INITIALIZING, CF_ARMING>>,
     <<CF_INITIALIZING, CF_NORMAL>>, <<CF_ARMING, CF_NORMAL>>,
     <<CF_NORMAL, CF_ARMING>>}

\* C26 (as stated): the status changes only along the five edges or to
\* POWERON in a successful first-run cycle, never leaves POWERON while
\* the tick count is <= 1000 and never leaves INITIALIZING while
\* 1000 < tick count < 7000.
C26_NeverLeavesInitializing ==
    [][LET a == complimentary_filter_status
           b == complimentary_filter_status'
       IN  /\ a # b =>
                /\ IterationStep
                /\ called' = "updateAttitudeComplementary"
                /\ \/ <<a, b>> \in StatusEdges
                   \/ first_run /\ ret_val' = 0 /\ b = CF_POWERON
           /\ (a = CF_POWERON /\ tick <= 1000) => b = CF_POWERON
           /\ (a = CF_INITIALIZING /\ 1000 < tick /\ tick < 7000)
                => b = CF_INITIALIZING]_vars

\* C26 (amended): the complementary filter's status changes only in a call of
\* updateAttitudeComplementary, and there only along POWERON ->
\* INITIALIZING, INITIALIZING -> ARMING, INITIALIZING -> NORMAL, ARMING ->
\* NORMAL, NORMAL -> ARMING, or to POWERON in a first-run cycle that
\* succeeds; it never leaves POWERON while the tick count is <= 1000, and
\* a cycle that is not a first-run cycle never leaves INITIALIZING while
\* 1000 < tick count < 7000.
C26_StatusTransitions ==
    [][LET a == complimentary_filter_status
           b == complimentary_filter_status'
       IN  /\ a # b =>
                /\ IterationStep
                /\ called' = "updateAttitudeComplementary"
                /\ \/ <<a, b>> \in StatusEdges
                   \/ first_run /\ ret_val' = 0 /\ b = CF_POWERON
           /\ (a = CF_POWERON /\ tick <= 1000) => b = CF_POWERON
           /\ (a = CF_INITIALIZING /\ 1000 < tick /\ tick < 7000
                 /\ ~(IterationStep /\ first_run))
                => b = CF_INITIALIZING]_vars

\* a cycle at tick count 7000 has just entered ARMING
C26_Witness ==
    /\ called = "updateAttitudeComplementary" /\ exit = "ok"
    /\ ~called_first_run
    /\ complimentary_filter_status = CF_ARMING
    /\ arming_count = 1
    /\ tick = 7000


\* ----------------------------------------------------------------------
\* settingsUpdatedCb runs in another thread than the attitude task, with
\* no lock: between a filter cycle's GyrosBiasGet and its test of
\* gyroBiasSettingsUpdated, between the clearing of the flag and the test
\* before the publication, and between that test and the cycle's
\* GyrosBiasSet, the callback may store a new InitialGyroBias.
\* ----------------------------------------------------------------------
EnvRace ==
    [EnvBias EXCEPT !.earlypush = {{}, {<<1, 1, 1>>}},
                    !.latepush = {{}, {<<1, 1, 1>>}}]

InitRace == InitEnv(EnvRace)

NextRace ==
    \/ TaskCheck
    \/ TaskDispatch(EnvRace)
    \/ InertialSensorSettingsUpdated(EnvRace)

SpecRace == InitRace /\ [][NextRace]_vars

\* C31: a gyro bias pushed by settingsUpdatedCb is never lost: while no
\* INSSetGyroBias call has handed it to the navigation filter, the flag
\* gyroBiasSettingsUpdated stays set (so the next initialized cycle
\* consumes it) and GyrosBias still holds the pushed value (it has not been
\* replaced by the filter's estimate).
C31_PushNeverLost ==
    pushed # {} => (gyroBiasSettingsUpdated /\ gyrosBias \in pushed)

\* C32: the accumulating flag of the gyro bias accumulator is set only
\* while the complementary filter status is ARMING, after every cycle and
\* across algorithm switches; a first-run reset of the status to POWERON
\* does not leave the accumulation running.
C32_AccumulatingOnlyWhileArming ==
    gyro_bias_estimation.accumulating_gyro
        => complimentary_filter_status = CF_ARMING

\* an iteration that is not a first-run reset of the navigation filter
NoInsReset ==
    IterationStep
    /\ ~(called' = "updateAttitudeINSGPS" /\ called_first_run')

\* a cycle of the navigation filter that got its gyro and accel samples
\* while the initialization is under way past stage 0
InitCycle ==
    /\ NavCycle /\ {"gyro", "accel"} \subseteq recv'
    /\ ~inited /\ init_stage > 0

\* C33 (as stated): between first-run resets init_stage never decreases,
\* and once stage 0 has run every cycle that receives its gyro and accel
\* samples advances init_stage by exactly one until the filter is
\* initialized.
C33_InitNeverStalls ==
    [][/\ NoInsReset => init_stage' >= init_stage
       /\ InitCycle => init_stage' = init_stage + 1]_vars

\* C33 (amended): between first-run resets init_stage never decreases, and
\* past stage 0 a cycle that receives its gyro and accel samples advances
\* init_stage by exactly one if mag_updated, baro_updated and (in outdoor
\* mode) gps_updated are still set after the validity tests of that cycle,
\* and otherwise leaves init_stage as it is.
C33_InitAdvancesWhileReady ==
    [][/\ NoInsReset => init_stage' >= init_stage
       /\ InitCycle =>
             init_stage' =
                IF mag_updated' /\ baro_updated'
                   /\ (gps_updated' \/ dispatched' # ALG_INSOUTDOOR)
                THEN init_stage + 1 ELSE init_stage]_vars

\* a cycle past stage 0 got its gyro and accel samples and stalled
C33_Witness ==
    /\ pc = "check" /\ called = "updateAttitudeINSGPS" /\ exit = "stall"
    /\ {"gyro", "accel"} \subseteq recv
    /\ ~inited /\ init_stage > 0 /\ init_stage <= INS_INIT_STAGES

\* ----------------------------------------------------------------------
\* Navigation filter with every sensor delivering valid samples in every
\* cycle: all queues deliver, the GPS fix has 7 or 8 satellites and a PDOP
\* of 4.0, the home location is set with a non-zero field.  The algorithm
\* is selected once; InertialSensorSettings may be rewritten at any time.  AttitudeTask loops forever, so its two steps
\* are weakly fair.
\* ----------------------------------------------------------------------
EnvLive ==
    [EnvBase EXCEPT !.algs = {ALG_INSINDOOR, ALG_INSOUTDOOR},
                    !.on = {"gyro", "accel", "mag", "baro", "gps", "gpsVel"},
                    !.opt = {},
                    !.sats = {7, 8},
                    !.biasset = BiasSettingVals]

InitLive == InitEnv(EnvLive)

NextLive ==
    \/ TaskCheck
    \/ TaskDispatch(EnvLive)
    \/ InertialSensorSettingsUpdated(EnvLive)

SpecLive ==
    /\ InitLive /\ [][NextLive]_vars
    /\ WF_vars(TaskCheck) /\ WF_vars(TaskDispatch(EnvLive))

\* C34: after a first-run reset of the navigation filter, with gyro,
\* accel, mag and baro samples (outdoors also qualifying GPS position
\* samples) arriving in every cycle and a non-zero home field, the filter
\* eventually is initialized and the attitude alarm is eventually cleared.
C34_EventuallyInitialized ==
    (called = "updateAttitudeINSGPS" /\ exit = "reset")
        ~> (inited /\ alarm = ALARM_OK)

\* the outdoor filter has run an initialized cycle and cleared the alarm
C34_Witness ==
    /\ pc = "check" /\ dispatched = ALG_INSOUTDOOR /\ exit = "run"
    /\ inited /\ alarm = ALARM_OK /\ gps_sats >= 7

\* ----------------------------------------------------------------------
\* The home-location branch of settingsUpdatedCb runs in another thread
\* and getNED in the attitude task, with no lock between them: the branch
\* is two steps, HomeLocationGet into the global homeLocation and then the
\* stores into T, and a conversion may run between them.  The branch is
\* between its steps exactly when T is not the coefficients of
\* homeLocation.
\* ----------------------------------------------------------------------
HomeLocationGetStep(E) ==
    /\ T = NedCoefficients(homeLocation)
    /\ \E h \in E.home : homeSet' = h.Set /\ homeBe' = h.Be
    /\ \E l \in E.homella : homeLocation' = l
    /\ UNCHANGED <<taskVars, FusionAlgorithm, gyroBiasSettingsUpdated,
                   ZeroDuringArming, BiasCorrectGyro, gyrosBias, alarm,
                   cfVars, gyro_bias_estimation, insVars, envVars, obsVars,
                   quatVars, T, gpsPosition, NED, comVars, pushed, sysVars>>

HomeCoefficientsStep ==
    /\ T # NedCoefficients(homeLocation)
    /\ T' = NedCoefficients(homeLocation)
    /\ UNCHANGED <<taskVars, settingVars, gyrosBias, alarm, cfVars,
                   gyro_bias_estimation, insVars, envVars, obsVars,
                   quatVars, homeLocation, gpsPosition, NED, comVars,
                   pushed, sysVars>>

InitHome == InitEnv(EnvNED)

NextHome ==
    \/ ConvertFix(EnvNED)
    \/ HomeLocationGetStep(EnvNED)
    \/ HomeCoefficientsStep

SpecHome == InitHome /\ [][NextHome]_vars

\* C35: whenever getNED runs, the coefficients T it multiplies by are the
\* ones derived from the homeLocation it subtracts, for every interleaving
\* with the home-location branch of settingsUpdatedCb; and T changes only
\* to the coefficients of the current homeLocation.
C35_CoefficientsMatchHome ==
    [][/\ (<<gpsPosition, NED>>' # <<gpsPosition, NED>>)
            => T = NedCoefficients(homeLocation)
       /\ T' # T => T' = NedCoefficients(homeLocation')]_vars

\* ----------------------------------------------------------------------
\* Complementary filter with and without a registered magnetometer: gyro
\* and mag samples may or may not be pending, also in simulation
\* (AttitudeActual read-only), and the algorithm switches to the navigation
\* filter and back between iterations, so that first-run cycles start from
\* every filter status.
\* ----------------------------------------------------------------------
EnvSeed ==
    [EnvBase EXCEPT !.algs = {ALG_COMPLEMENTARY, ALG_INSINDOOR},
                    !.opt = {"gyro", "mag"},
                    !.on = {"accel"},
                    !.magreg = BOOLEAN,
                    !.readonly = BOOLEAN]

InitSeed == InitEnv(EnvSeed)

NextSeed ==
    \/ TaskCheck
    \/ TaskDispatch(EnvSeed)
    \/ SwitchBetweenIterations(EnvSeed)

SpecSeed == InitSeed /\ [][NextSeed]_vars

\* a first-run cycle of the complementary filter that got past the wait
\* for the gyro and accel samples
SeedCycle ==
    /\ FirstRunCycle /\ called' = "updateAttitudeComplementary"
    /\ exit' # "timeout"

MaxLocks == 2
Threads == {"system", "module"}
EventKeys == {SYSTEM_CB, 1, 2}
Periods == {0, SYSTEM_UPDATE_PERIOD_MS}

\* PIOS_Recursive_Mutex_Lock with PIOS_MUTEX_TIMEOUT_MAX returns once the
\* mutex is free or already held by the caller
Lockable(m, t) == m.owner \in {"none", t}
Lock(m, t) == [owner |-> t, count |-> m.count + 1]
Unlock(m) ==
    IF m.count = 1 THEN [owner |-> "none", count |-> 0]
    ELSE [m EXCEPT !.count = @ - 1]

Registered(list, key) == \E i \in 1..Len(list) : list[i].key = key

\* the state eventPeriodicCreate returns in: alloc is whether
\* PIOS_malloc_no_dma succeeds
eventPeriodicCreate(m, list, t, key, periodMs, alloc) ==
    LET held == Lock(m, t) IN
    IF Registered(list, key)
    THEN [mutex |-> Unlock(held), objList |-> list, ret |-> 0 - 1]
    ELSE IF ~alloc
    THEN [mutex |-> held, objList |-> list, ret |-> 0 - 1]
    ELSE [mutex |-> Unlock(held),
          objList |-> Append(list, [key |-> key,
                                    updatePeriodMs |-> periodMs]),
          ret |-> 0]

eventPeriodicUpdate(m, list, t, key, periodMs) ==
    LET held == Lock(m, t) IN
    IF Registered(list, key)
    THEN [mutex |-> Unlock(held),
          objList |-> [i \in 1..Len(list) |->
                         IF list[i].key = key
                         THEN [list[i] EXCEPT !.updatePeriodMs = periodMs]
                         ELSE list[i]],
          ret |-> 0]
    ELSE [mutex |-> Unlock(held), objList |-> list, ret |-> 0 - 1]

EventPeriodicCreate ==
    \E t \in Threads, key \in EventKeys, periodMs \in Periods,
       alloc \in BOOLEAN :
       /\ Lockable(mutex, t) /\ mutex.count < MaxLocks
       /\ t = "system" => cb_pc = "idle"
       /\ LET r == eventPeriodicCreate(mutex, objList, t, key, periodMs,
                                       alloc)
          IN  /\ mutex' = r.mutex /\ objList' = r.objList
              /\ ev_ret' = r.ret
              /\ ev_op' = [name |-> "create", thread |-> t, key |-> key,
                           dup |-> Registered(objList, key),
                           alloc |-> alloc]
       /\ UNCHANGED <<taskVars, settingVars, gyrosBias, alarm, cfVars,
                      gyro_bias_estimation, insVars, envVars, obsVars,
                      quatVars, nedVars, comVars, pushed,
                      config_check_needed, cb_pc, unchecked>>

EventPeriodicUpdate ==
    \E t \in Threads, key \in EventKeys \ {SYSTEM_CB},
       periodMs \in Periods :
       /\ Lockable(mutex, t) /\ mutex.count < MaxLocks
       /\ t = "system" => cb_pc = "idle"
       /\ LET r == eventPeriodicUpdate(mutex, objList, t, key, periodMs)
          IN  /\ mutex' = r.mutex /\ objList' = r.objList
              /\ ev_ret' = r.ret
              /\ ev_op' = [name |-> "update", thread |-> t, key |-> key]
       /\ UNCHANGED <<taskVars, settingVars, gyrosBias, alarm, cfVars,
                      gyro_bias_estimation, insVars, envVars, obsVars,
                      quatVars, nedVars, comVars, pushed,
                      config_check_needed, cb_pc, unchecked>>

\* processPeriodicUpdates up to the point where systemPeriodicCb has called
\* configuration_check (due: the timer of the systemPeriodicCb event has
\* expired), or to its return if the callback does not check
ProcessPeriodicUpdates ==
    /\ cb_pc = "idle"
    /\ Lockable(mutex, "system") /\ mutex.count < MaxLocks
    /\ \E due \in BOOLEAN :
          IF due /\ config_check_needed
          THEN /\ mutex' = Lock(mutex, "system")
               /\ cb_pc' = "checking"
               /\ unchecked' = FALSE
               /\ ev_op' = [name |-> "process", checks |-> TRUE]
          ELSE /\ mutex' = Unlock(Lock(mutex, "system"))
               /\ ev_op' = [name |-> "process", checks |-> FALSE]
               /\ UNCHANGED <<cb_pc, unchecked>>
    /\ ev_ret' = 0
    /\ UNCHANGED <<taskVars, settingVars, gyrosBias, alarm, cfVars,
                   gyro_bias_estimation, insVars, envVars, obsVars,
                   quatVars, nedVars, comVars, pushed, objList,
                   config_check_needed>>

\* configuration_check returns, systemPeriodicCb clears the flag and
\* processPeriodicUpdates runs to its return
ProcessPeriodicUpdatesReturn ==
    /\ cb_pc = "checking"
    /\ config_check_needed' = FALSE
    /\ cb_pc' = "idle"
    /\ mutex' = Unlock(mutex)
    /\ UNCHANGED <<taskVars, settingVars, gyrosBias, alarm, cfVars,
                   gyro_bias_estimation, insVars, envVars, obsVars,
                   quatVars, nedVars, comVars, pushed, objList, ev_op,
                   ev_ret, unchecked>>

ConfigurationUpdatedCb ==
    /\ config_check_needed' = TRUE
    /\ unchecked' = TRUE
    /\ UNCHANGED <<taskVars, settingVars, gyrosBias, alarm, cfVars,
                   gyro_bias_estimation, insVars, envVars, obsVars,
                   quatVars, nedVars, comVars, pushed, mutex, objList,
                   ev_op, ev_ret, cb_pc>>

InitSys == InitEnv(EnvBase)

NextSys ==
    \/ EventPeriodicCreate
    \/ EventPeriodicUpdate
    \/ ProcessPeriodicUpdates
    \/ ProcessPeriodicUpdatesReturn
    \/ ConfigurationUpdatedCb

SpecSys == InitSys /\ [][NextSys]_vars

\* C37: every return path of eventPeriodicCreate, eventPeriodicUpdate and
\* processPeriodicUpdates releases the recursive mutex it acquired: while
\* none of them is executing the mutex is free, also after a registration
\* that failed on a duplicate or on the allocation.
C37_MutexReleased ==
    cb_pc = "idle" => (mutex.owner = "none" /\ mutex.count = 0)

\* C38: a configuration-change notification is not lost: while one has
\* arrived since configuration_check last started, config_check_needed
\* is set, so that the next run of systemPeriodicCb checks again, also
\* when the notification arrived while configuration_check was running.
C38_NotificationNotLost == unchecked => config_check_needed

=============================================================================
